---- MODULE Spec2Model ----
(***************************************************************************)
(* The relay server of "The 100 Game": server/RoomManager.js (the room     *)
(* registry and the seats of each room) and the socket handlers of         *)
(* server/server.js (create-room, join-room, rejoin-room, start-game,      *)
(* game-action, send-hint, leave-room, disconnect), its persistence        *)
(* bridge and its cleanup timer; the game-state handlers of the client     *)
(* (src/App.jsx); the game engine (playCard, endTurn).  A handler is one   *)
(* step up to its first await that waits for the store; what follows the   *)
(* await is a step taken when the store answers.                           *)
(***************************************************************************)
EXTENDS Integers, Sequences, FiniteSets, Bags, TLC

\* ------------------------------------------------------------------ bounds
\* join-room and a seat-adding rejoin-room are explored while the room has
\* fewer seats than this.
MaxSeats == 2
\* game-action is explored while the stored version is below this.
MaxVersion == 2
\* The number of events of one behaviour of the two-room specification.
MaxEvents == 4
\* The seats of a room in the specification of join and leave alone.
MaxLobbySeats == 3
\* The clock is advanced up to this hour.
MaxTime == 5
\* The games the engine and the client are explored on: cards 1 .. MaxCard,
\* NumPlayers hands of HandSize cards, MinCardsPerTurn cards to play before
\* a turn may end, a step back of BacktrackAmount.
MaxCard == 5
NumPlayers == 2
HandSize == 2
MinCardsPerTurn == 1
BacktrackAmount == 2
\* A client is explored up to this many emitted game-actions.
MaxSent == 2
\* A client playing one turn is explored up to this many.
MaxTurnSent == 3
\* The engine alone is explored up to this number of cards played.
MaxPlays == 2

\* roomManager.ROOM_LIFETIME_MS, in hours (the unit of the clock).
ROOM_LIFETIME == 3

\* The socket ids of the transport connections: all of them are open when
\* the model starts, and an id is never used again once its connection closed.
Sockets == {"s1", "s2", "s3"}
\* The values generateRoomCode can return.
Codes == {"R1", "R2"}
Names == {"ann", "bob"}
\* What a game-state payload holds besides its version (hands, piles, ...):
\* opaque to the server.
Contents == {"x", "y"}
\* The playerIndex values a rejoin-room request may carry.
Indices == {0, 1, 2}

\* ------------------------------------------------------------------ values
\* JavaScript's null (room.numPlayers, room.gameState before the start).
Null == [null |-> TRUE]

\* A number held by a field that may hold null as well (room.numPlayers).
Number(n) == [number |-> n]

\* The gameState payloads a client can submit: with or without a version.
Payloads ==
  [content : Contents] \cup [content : Contents, version : {0, 1}]

\* (oldState?.version || 0): 0 for a null state, a state without version,
\* and a version of 0.
VersionOr0(gs) ==
  IF gs = Null THEN 0
  ELSE IF "version" \notin DOMAIN gs THEN 0
  ELSE IF gs.version = 0 THEN 0
  ELSE gs.version

Seat(id, name, playerIndex, connected) ==
  [id |-> id, name |-> name, playerIndex |-> playerIndex, connected |-> connected]

\* The room object createRoom builds (the rule parameters handSize,
\* minCardsPerTurn, maxCard, backtrackAmount are never written again and are
\* left out).
NewRoom(socketId, playerName, createdAt) ==
  [ numPlayers |-> Null,
    players    |-> << Seat(socketId, playerName, 0, TRUE) >>,
    gameState  |-> Null,
    started    |-> FALSE,
    createdAt  |-> createdAt ]

\* ------------------------------------------------------------------ state
VARIABLES
  conn,     \* conn[s]: "open" or "closed"
  rooms,    \* roomManager.rooms: a function from the codes in use to rooms
  channel,  \* channel[c]: the sockets joined to the socket.io channel c
  last,     \* the event handled last: its request, outcome and emissions
  updated,  \* updated[c]: the version carried by the latest 'game-update'
            \* broadcast of the room registered under c, 0 before the first
  events,   \* the number of events handled so far, counted by the
            \* specification of the behaviours of MaxEvents events
  suspended, \* suspended[s]: the affected rooms that the disconnect handler
            \* of s, suspended at an await of saveRoom, has yet to go through
  clock,    \* Date.now(), in hours since the server started
  db,       \* the persistence bridge: present (roomsCollection is set),
            \* stalled (the store has stopped answering), records (the
            \* codes that have a document in the store) and pending (the
            \* bag of the operations the store has not answered)
  client,   \* client[s]: the game state of the client behind socket s
  wire,     \* the state messages emitted to clients and not yet delivered
  game,     \* the game state the engine functions are called on
  returned  \* the latest call of an engine function and what it returned

vars == << conn, rooms, channel, last, updated, events, suspended,
           clock, db, client, wire, game, returned >>

\* ------------------------------------------------------------------ helpers
\* Array.prototype.findIndex and find: the first of the positions whose
\* element satisfies the callback (hits), 0 when there is none (positions
\* count from 1 here).
FindIndex(hits) ==
  IF hits = {} THEN 0
  ELSE CHOOSE i \in hits : \A j \in hits : i <= j

\* The positions of the seats bound to the socket (p => p.id === socketId).
SeatsOfSocket(players, socketId) ==
  { i \in 1..Len(players) : players[i].id = socketId }

\* Array.prototype.splice(i, 1)
RemoveAt(seq, i) ==
  [ j \in 1..(Len(seq) - 1) |-> IF j < i THEN seq[j] ELSE seq[j + 1] ]

\* Inserting one seat into a list sorted by playerIndex, after the seats
\* that do not compare greater (the sort is stable).
RECURSIVE InsertSorted(_, _)
InsertSorted(sorted, p) ==
  IF sorted = << >> THEN << p >>
  ELSE IF sorted[Len(sorted)].playerIndex - p.playerIndex > 0
       THEN Append(InsertSorted(SubSeq(sorted, 1, Len(sorted) - 1), p),
                   sorted[Len(sorted)])
       ELSE Append(sorted, p)

\* The slip of leaving the seats in the order of the pushes.
AsPushed(players) == players

\* room.players.sort((a, b) => a.playerIndex - b.playerIndex)
RECURSIVE SortPlayers(_)
SortPlayers(players) ==
  IF players = << >> THEN << >>
  ELSE InsertSorted(SortPlayers(SubSeq(players, 1, Len(players) - 1)),
                    players[Len(players)])

TakenIndices(players) == { players[i].playerIndex : i \in 1..Len(players) }

\* let playerIndex = 0; while (takenIndices.has(playerIndex)) playerIndex++;
RECURSIVE Probe(_, _)
Probe(taken, playerIndex) ==
  IF playerIndex \in taken THEN Probe(taken, playerIndex + 1) ELSE playerIndex

\* The slip of numbering a new seat after the highest index in use.
AfterHighestIndex(players) ==
  IF players = << >> THEN 0
  ELSE 1 + CHOOSE k \in TakenIndices(players) :
             \A j \in TakenIndices(players) : j <= k

LowestFreeIndex(players) == Probe(TakenIndices(players), 0)

\* The 'room-update' payload of a room (players, numPlayers, started).
RoomUpdate(room) ==
  [players |-> room.players, numPlayers |-> room.numPlayers, started |-> room.started]

\* One emission: io.to(code).emit reaches the channel's members,
\* socket.emit the requesting socket alone.
Emit(to, ev, body) == [to |-> to, ev |-> ev, body |-> body]

\* The record of a handled event: the request (its name, socket, room code
\* and its other arguments, Null when it has none), how the handler ended
\* ("ok", "error", "none" for a silent return, "threw" for an exception)
\* and what it emitted, in order.
Handled(op, sock, code, req, result, out) ==
  [op |-> op, sock |-> sock, code |-> code, req |-> req,
   result |-> result, out |-> out]

Put(code, room) ==
  [ c \in DOMAIN rooms \cup {code} |-> IF c = code THEN room ELSE rooms[c] ]

\* ------------------------------------------------------------- persistence
\* An operation the store has been asked for and has not answered:
\* roomsCollection.updateOne ("save") or deleteOne ("delete") for a code,
\* and what the handler that awaits it does when the answer comes (then):
\* nothing more (Null), the acknowledgement of a game-action
\* ([ack |-> socket]), the next pass of a disconnect handler
\* ([resume |-> socket]) or the next pass of the cleanup
\* ([sweep |-> the codes it has still to delete]).
StoreOp(kind, code, then) == [kind |-> kind, code |-> code, then |-> then]

\* saveRoom(code) reaches the store, and the caller waits for the answer,
\* when roomsCollection is set and the registry holds a room under the
\* code; otherwise it returns at once and the caller goes on in the same
\* step.
Awaits(registry, code) == db.present /\ code \in DOMAIN registry

\* saveRoom(code), called by a handler that left the registry as given and
\* that goes on with then.
SaveRoom(registry, code, then) ==
  IF Awaits(registry, code)
  THEN db' = [db EXCEPT !.pending = @ (+) SetToBag({StoreOp("save", code, then)})]
  ELSE UNCHANGED db

\* The bridge after the store has answered op: updateOne with upsert makes
\* the document of the code exist, deleteOne makes it not exist; a failed
\* operation (ok is FALSE) is caught and logged and changes no document.
Answered(op, ok) ==
  [db EXCEPT !.pending = @ (-) SetToBag({op}),
             !.records = IF ~ok THEN @
                         ELSE IF op.kind = "save" THEN @ \cup {op.code}
                         ELSE @ \ {op.code}]

\* ------------------------------------------------------------------ Init
\* The server after its start: connectDB has set roomsCollection (present)
\* or has failed and left it unset; the store held no room to load.
ServerInit(present) ==
  /\ conn = [s \in Sockets |-> "open"]
  /\ rooms = << >>
  /\ channel = [c \in Codes |-> {}]
  /\ last = Handled("none", "", "", Null, "none", << >>)
  /\ updated = [c \in Codes |-> 0]
  /\ events = 0
  /\ suspended = [s \in Sockets |-> << >>]
  /\ clock = 0
  /\ db = [present |-> present, stalled |-> FALSE,
           records |-> {}, pending |-> EmptyBag]

\* The client after mounting: useState(null) for gameState and for
\* myPlayerIndex, the listeners registered by the first run of the effect.
NewClient ==
  [ gameState |-> Null, captured |-> Null, stale |-> FALSE,
    myPlayerIndex |-> Null, sent |-> << >>, heard |-> Null,
    screen |-> "menu", isHost |-> FALSE, roomPlayers |-> << >>,
    numPlayers |-> Number(2),
    isConnected |-> TRUE, pendingActions |-> << >>,
    seen |-> [isConnected |-> TRUE, pendingActions |-> << >>],
    listening |-> [isConnected |-> TRUE, pendingActions |-> << >>],
    attempts |-> << >> ]

ClientInit ==
  /\ client = [s \in Sockets |-> NewClient]
  /\ wire = {}

\* No engine call has been made.
EngineInit ==
  /\ game = Null
  /\ returned = Null

\* The server without a store.
Init == ServerInit(FALSE) /\ ClientInit /\ EngineInit

\* The server with its store connected.
InitStore == ServerInit(TRUE) /\ ClientInit /\ EngineInit

\* A suspended handler holds the room objects it was given, not their
\* codes: an entry reads the registry (room is Null) as long as its room is
\* registered, and holds the room as it was left once rooms.set has put
\* another room under the code.
Detached(code) ==
  [ s \in Sockets |->
      [ i \in 1..Len(suspended[s]) |->
          IF /\ suspended[s][i].code = code
             /\ suspended[s][i].room = Null
             /\ code \in DOMAIN rooms
          THEN [code |-> code, room |-> rooms[code]]
          ELSE suspended[s][i] ] ]

\* socket.on('create-room'): roomManager.createRoom, socket.join, the
\* 'room-created' reply and the 'room-update' broadcast.
CreateRoom(s, playerName, code) ==
  /\ conn[s] = "open"
  /\ LET room == NewRoom(s, playerName, clock)
         members == channel[code] \cup {s}
     IN /\ rooms' = Put(code, room)
        /\ channel' = [channel EXCEPT ![code] = members]
        /\ updated' = [updated EXCEPT ![code] = 0]
        /\ last' = Handled("create-room", s, code, [playerName |-> playerName], "ok",
                     << Emit({s}, "room-created", [roomCode |-> code, playerIndex |-> 0]),
                        Emit(members, "room-update", RoomUpdate(room)) >>)
        /\ suspended' = Detached(code)
        /\ SaveRoom(Put(code, room), code, Null)
  /\ UNCHANGED << conn, clock >>

\* roomManager.addPlayerToRoom: the room after the join.
AddPlayerToRoom(room, socketId, playerName) ==
  [room EXCEPT !.players =
     SortPlayers(Append(room.players,
       Seat(socketId, playerName, LowestFreeIndex(room.players), TRUE)))]

\* socket.on('join-room')
JoinRoom(s, playerName, code) ==
  /\ conn[s] = "open"
  /\ IF code \notin DOMAIN rooms
     THEN /\ last' = Handled("join-room", s, code, [playerName |-> playerName], "error",
                       << Emit({s}, "error", [message |-> "Room not found"]) >>)
          /\ UNCHANGED << rooms, channel, db >>
     ELSE IF rooms[code].started
     THEN /\ last' = Handled("join-room", s, code, [playerName |-> playerName], "error",
                       << Emit({s}, "error", [message |-> "Game already started"]) >>)
          /\ UNCHANGED << rooms, channel, db >>
     ELSE LET playerIndex == LowestFreeIndex(rooms[code].players)
              room == AddPlayerToRoom(rooms[code], s, playerName)
              members == channel[code] \cup {s}
          IN /\ rooms' = Put(code, room)
             /\ channel' = [channel EXCEPT ![code] = members]
             /\ last' = Handled("join-room", s, code, [playerName |-> playerName], "ok",
                  << Emit({s}, "room-joined",
                          [roomCode |-> code, playerIndex |-> playerIndex]),
                     Emit(members, "room-update", RoomUpdate(room)) >>)
             /\ SaveRoom(Put(code, room), code, Null)
  /\ UNCHANGED << conn, updated, suspended, clock >>

\* The slip of a lookup that finds no seat.
SeatNeverFound(room, playerIndex) == 0

\* room.players.find(p => p.playerIndex === playerIndex): the position of
\* the seat that holds playerIndex, 0 when no seat does.
SeatOfIndex(room, playerIndex) ==
  FindIndex({ i \in 1..Len(room.players) :
               room.players[i].playerIndex = playerIndex })

\* The slip of rebinding the seat without marking it connected.
TakeOverKeepingFlag(room, pos, socketId, playerName) ==
  [room EXCEPT !.players[pos] =
     Seat(socketId, playerName, room.players[pos].playerIndex,
          room.players[pos].connected)]

\* roomManager.rejoinPlayer when a seat holds playerIndex: the seat is
\* rebound to the socket.
TakeOverSeat(room, pos, socketId, playerName) ==
  [room EXCEPT !.players[pos] =
     Seat(socketId, playerName, room.players[pos].playerIndex, TRUE)]

\* A fallback that adds the seat of a started room only while the room has
\* fewer seats than numPlayers (a pre-declared player count as a limit).
InsertSeatWithinLimit(room, socketId, playerName, playerIndex) ==
  IF room.started /\ Len(room.players) >= room.numPlayers.number
  THEN room
  ELSE [room EXCEPT !.players =
          SortPlayers(Append(room.players,
                             Seat(socketId, playerName, playerIndex, TRUE)))]

\* roomManager.rejoinPlayer when no seat holds playerIndex: a new seat.
InsertSeat(room, socketId, playerName, playerIndex) ==
  [room EXCEPT !.players =
     SortPlayers(Append(room.players, Seat(socketId, playerName, playerIndex, TRUE)))]

\* socket.on('rejoin-room'): the handler makes no call of saveRoom.
RejoinRoom(s, playerName, playerIndex, code) ==
  /\ conn[s] = "open"
  /\ IF code \notin DOMAIN rooms
     THEN /\ last' = Handled("rejoin-room", s, code,
                    [playerName |-> playerName, playerIndex |-> playerIndex], "error",
                       << Emit({s}, "error",
                               [message |-> "Room not found - game may have ended"]) >>)
          /\ UNCHANGED << rooms, channel >>
     ELSE LET pos == SeatOfIndex(rooms[code], playerIndex)
              room == IF pos # 0
                      THEN TakeOverSeat(rooms[code], pos, s, playerName)
                      ELSE InsertSeat(rooms[code], s, playerName, playerIndex)
              members == channel[code] \cup {s}
          IN /\ rooms' = Put(code, room)
             /\ channel' = [channel EXCEPT ![code] = members]
             /\ last' = Handled("rejoin-room", s, code,
                    [playerName |-> playerName, playerIndex |-> playerIndex], "ok",
                  << Emit({s}, "rejoined",
                          [gameState |-> room.gameState,
                           players |-> room.players,
                           screen |-> IF room.started THEN "game" ELSE "lobby"]),
                     Emit(members, "room-update", RoomUpdate(room)) >>)
  /\ UNCHANGED << conn, updated, suspended, clock, db >>

\* The host check of start-game: "host" when the request passes, "not-host"
\* when it is answered by the error, "throws" when room.players[0] is
\* undefined and reading its id raises a TypeError.
HostCheck(room, socketId) ==
  LET pos == FindIndex(SeatsOfSocket(room.players, socketId))
  IN IF pos = 0 \/ room.players[pos].playerIndex # 0
     THEN IF room.players = << >> THEN "throws"
          ELSE IF room.players[1].id # socketId THEN "not-host"
          ELSE "host"
     ELSE "host"

\* The slip of storing the initial state under version 0 while the state
\* goes out as submitted.
StartedRoomStamped(room, gameState) ==
  [room EXCEPT !.numPlayers = Number(Len(room.players)),
               !.gameState = [content |-> gameState.content, version |-> 0],
               !.started = TRUE]

\* The slip of flipping the flag instead of setting it.
StartedRoomToggling(room, gameState) ==
  [room EXCEPT !.numPlayers = Number(Len(room.players)),
               !.gameState = gameState,
               !.started = ~room.started]

\* The writes of an accepted start-game.
StartedRoom(room, gameState) ==
  [room EXCEPT !.numPlayers = Number(Len(room.players)),
               !.gameState = gameState,
               !.started = TRUE]

\* A start-game handler that sends the host error with io.to(roomCode).emit
\* instead of socket.emit.
StartGameErrorToRoom(s, code, gameState) ==
  /\ conn[s] = "open"
  /\ IF code \notin DOMAIN rooms
     THEN /\ last' = Handled("start-game", s, code, [gameState |-> gameState], "error",
                       << Emit({s}, "error", [message |-> "Room not found"]) >>)
          /\ UNCHANGED << rooms, updated, db >>
     ELSE LET check == HostCheck(rooms[code], s)
          IN IF check = "throws"
             THEN /\ last' = Handled("start-game", s, code, [gameState |-> gameState], "threw", << >>)
                  /\ UNCHANGED << rooms, updated, db >>
             ELSE IF check = "not-host"
             THEN /\ last' = Handled("start-game", s, code, [gameState |-> gameState], "error",
                       << Emit(channel[code], "error",
                               [message |-> "Only host can start the game"]) >>)
                  /\ UNCHANGED << rooms, updated, db >>
             ELSE /\ rooms' = Put(code, StartedRoom(rooms[code], gameState))
                  /\ UNCHANGED updated
                  /\ last' = Handled("start-game", s, code, [gameState |-> gameState], "ok",
                       << Emit(channel[code], "game-started",
                               [gameState |-> gameState]) >>)
                  /\ SaveRoom(rooms, code, Null)
  /\ UNCHANGED << conn, channel, suspended, clock >>

\* socket.on('start-game')
StartGame(s, code, gameState) ==
  /\ conn[s] = "open"
  /\ IF code \notin DOMAIN rooms
     THEN /\ last' = Handled("start-game", s, code, [gameState |-> gameState], "error",
                       << Emit({s}, "error", [message |-> "Room not found"]) >>)
          /\ UNCHANGED << rooms, updated, db >>
     ELSE LET check == HostCheck(rooms[code], s)
          IN IF check = "throws"
             THEN /\ last' = Handled("start-game", s, code, [gameState |-> gameState], "threw", << >>)
                  /\ UNCHANGED << rooms, updated, db >>
             ELSE IF check = "not-host"
             THEN /\ last' = Handled("start-game", s, code, [gameState |-> gameState], "error",
                       << Emit({s}, "error",
                               [message |-> "Only host can start the game"]) >>)
                  /\ UNCHANGED << rooms, updated, db >>
             ELSE /\ rooms' = Put(code, StartedRoom(rooms[code], gameState))
                  /\ UNCHANGED updated
                  /\ last' = Handled("start-game", s, code, [gameState |-> gameState], "ok",
                       << Emit(channel[code], "game-started",
                               [gameState |-> gameState]) >>)
                  /\ SaveRoom(rooms, code, Null)
  /\ UNCHANGED << conn, channel, suspended, clock >>

\* callback({ success: true })
Acknowledged(s) == Emit({s}, "ack", [success |-> TRUE])

\* The slip of counting from the version the client sent.
VersionedFromPayload(oldState, gameState) ==
  [content |-> gameState.content, version |-> VersionOr0(gameState) + 1]

\* gameState.version = (oldState?.version || 0) + 1
Versioned(oldState, gameState) ==
  [content |-> gameState.content, version |-> VersionOr0(oldState) + 1]

\* A game-action handler that turns away a payload computed from a state
\* older than the stored one (an optimistic-concurrency check).
GameActionChecked(s, code, gameState) ==
  /\ conn[s] = "open"
  /\ IF code \notin DOMAIN rooms
     THEN /\ last' = Handled("game-action", s, code, [gameState |-> gameState], "error",
                       << Emit({s}, "ack", [error |-> "Room not found"]) >>)
          /\ UNCHANGED << rooms, updated, db >>
     ELSE IF VersionOr0(gameState) < VersionOr0(rooms[code].gameState)
     THEN /\ last' = Handled("game-action", s, code, [gameState |-> gameState], "error",
                       << Emit({s}, "ack", [error |-> "Version conflict"]) >>)
          /\ UNCHANGED << rooms, updated, db >>
     ELSE LET stored == Versioned(rooms[code].gameState, gameState)
          IN /\ rooms' = Put(code, [rooms[code] EXCEPT !.gameState = stored])
             /\ updated' = [updated EXCEPT ![code] = stored.version]
             /\ last' = Handled("game-action", s, code, [gameState |-> gameState], "ok",
                  << Emit(channel[code], "game-update", [gameState |-> stored]) >>
                  \o (IF Awaits(rooms, code) THEN << >> ELSE << Acknowledged(s) >>))
             /\ SaveRoom(rooms, code, [ack |-> s])
  /\ UNCHANGED << conn, channel, suspended, clock >>

\* socket.on('game-action'): the acknowledgement follows await saveRoom, in
\* the same step when saveRoom returns at once, when the store has answered
\* otherwise.
GameAction(s, code, gameState) ==
  /\ conn[s] = "open"
  /\ IF code \notin DOMAIN rooms
     THEN /\ last' = Handled("game-action", s, code, [gameState |-> gameState], "error",
                       << Emit({s}, "ack", [error |-> "Room not found"]) >>)
          /\ UNCHANGED << rooms, updated, db >>
     ELSE LET stored == Versioned(rooms[code].gameState, gameState)
          IN /\ rooms' = Put(code, [rooms[code] EXCEPT !.gameState = stored])
             /\ updated' = [updated EXCEPT ![code] = stored.version]
             /\ last' = Handled("game-action", s, code, [gameState |-> gameState], "ok",
                  << Emit(channel[code], "game-update", [gameState |-> stored]) >>
                  \o (IF Awaits(rooms, code) THEN << >> ELSE << Acknowledged(s) >>))
             /\ SaveRoom(rooms, code, [ack |-> s])
  /\ UNCHANGED << conn, channel, suspended, clock >>

\* socket.on('send-hint'): relayed to the other members of the channel.
SendHint(s, code) ==
  /\ conn[s] = "open"
  /\ last' = Handled("send-hint", s, code, Null, "ok",
               << Emit(channel[code] \ {s}, "hint-received", [hint |-> "hint"]) >>)
  /\ UNCHANGED << conn, rooms, channel, updated, suspended, clock, db >>

\* roomManager.removePlayer: the position of the seat it removes, 0 when it
\* returns null.
RemovePlayerPos(code, socketId) ==
  IF code \notin DOMAIN rooms THEN 0
  ELSE FindIndex(SeatsOfSocket(rooms[code].players, socketId))

\* The slip of keeping the seat of a started room and marking it
\* disconnected, as a disconnect does.
RoomWithSeatReserved(room, pos) ==
  IF room.started
  THEN [room EXCEPT !.players[pos].connected = FALSE]
  ELSE [room EXCEPT !.players = RemoveAt(@, pos)]

\* The slip of removing the last seat of the list instead of the one found.
RoomWithoutLast(room, pos) ==
  [room EXCEPT !.players = RemoveAt(@, Len(room.players))]

\* room.players.splice(playerIndex, 1) of removePlayer.
RoomWithout(room, pos) == [room EXCEPT !.players = RemoveAt(@, pos)]

\* socket.on('leave-room')
LeaveRoom(s, code) ==
  /\ conn[s] = "open"
  /\ LET pos == RemovePlayerPos(code, s)
     IN IF pos = 0
        THEN /\ last' = Handled("leave-room", s, code, Null, "none", << >>)
             /\ UNCHANGED << rooms, channel, db >>
        ELSE LET room == RoomWithout(rooms[code], pos)
                 members == channel[code] \ {s}
             IN /\ rooms' = Put(code, room)
                /\ channel' = [channel EXCEPT ![code] = members]
                /\ last' = Handled("leave-room", s, code, Null, "ok",
                     IF room.players # << >>
                     THEN << Emit(members, "room-update", RoomUpdate(room)) >>
                     ELSE << >>)
                /\ SaveRoom(Put(code, room), code, Null)
  /\ UNCHANGED << conn, updated, suspended, clock >>

\* The slip of removing the seat whether or not the room has started.
DisconnectedByRemoval(room, socketId) ==
  LET pos == FindIndex(SeatsOfSocket(room.players, socketId))
  IN IF pos = 0 THEN room ELSE [room EXCEPT !.players = RemoveAt(@, pos)]

\* The slip of marking the seat disconnected whether or not the room has
\* started.
DisconnectedByMarking(room, socketId) ==
  LET pos == FindIndex(SeatsOfSocket(room.players, socketId))
  IN IF pos = 0 THEN room
     ELSE [room EXCEPT !.players[pos].connected = FALSE]

\* roomManager.handleDisconnect, for one room of the registry: the first seat
\* bound to the socket loses its connection in a started room and is removed
\* from a room that has not started.
DisconnectedRoom(room, socketId) ==
  LET pos == FindIndex(SeatsOfSocket(room.players, socketId))
  IN IF pos = 0 THEN room
     ELSE IF room.started
          THEN [room EXCEPT !.players[pos].connected = FALSE]
          ELSE [room EXCEPT !.players = RemoveAt(@, pos)]

\* The rooms handleDisconnect returns as affected.
AffectedRooms(socketId) ==
  { c \in DOMAIN rooms :
      FindIndex(SeatsOfSocket(rooms[c].players, socketId)) # 0 }

\* The orders in which rooms.entries() can yield the affected rooms (the
\* order in which their codes were set).
IterationOrders(codes) ==
  { order \in [1..Cardinality(codes) -> codes] :
      \A i, j \in 1..Cardinality(codes) : order[i] = order[j] => i = j }

\* One pass of the loop of the disconnect handler, up to its saveRoom: the
\* 'room-update' of the affected room and, when the room is started,
\* 'player-disconnected'.
DisconnectEmits(room, members) ==
  << Emit(members, "room-update", RoomUpdate(room)) >>
  \o (IF room.started
      THEN << Emit(members, "player-disconnected",
                   [message |-> "Player disconnected"]) >>
      ELSE << >>)

\* The room object a suspended handler holds for an affected room.
RoomOf(entry, registry) ==
  IF entry.room = Null THEN registry[entry.code] ELSE entry.room

\* The number of passes the loop of the disconnect handler makes over the
\* entries before it waits for the store: up to the first pass whose
\* saveRoom reaches the store, every pass when none does.
RECURSIVE PassesRun(_, _)
PassesRun(entries, registry) ==
  IF entries = << >> THEN 0
  ELSE IF Awaits(registry, Head(entries).code) THEN 1
  ELSE 1 + PassesRun(Tail(entries), registry)

\* What the first k passes emit.
RECURSIVE PassesEmit(_, _, _, _)
PassesEmit(entries, k, registry, members) ==
  IF k = 0 THEN << >>
  ELSE DisconnectEmits(RoomOf(Head(entries), registry), members[Head(entries).code])
       \o PassesEmit(Tail(entries), k - 1, registry, members)

\* The save the handler of s waits for after k passes (none when the k-th
\* saveRoom returned at once): the loop goes on when it is answered, if
\* entries are left.
PassesSave(s, entries, k, registry) ==
  IF k > 0 /\ Awaits(registry, entries[k].code)
  THEN SetToBag({StoreOp("save", entries[k].code,
                         IF k < Len(entries) THEN [resume |-> s] ELSE Null)})
  ELSE EmptyBag

\* socket.on('disconnect'), up to its first await of the store:
\* handleDisconnect on the whole registry and the passes for the affected
\* rooms up to the first saveRoom that reaches the store; the handler then
\* waits with the other affected rooms still to go.  The transport has taken
\* the socket out of every channel when the handler runs.
Disconnect(s) ==
  /\ conn[s] = "open"
  /\ conn' = [conn EXCEPT ![s] = "closed"]
  /\ LET after == [c \in DOMAIN rooms |-> DisconnectedRoom(rooms[c], s)]
         members == [c \in Codes |-> channel[c] \ {s}]
     IN /\ rooms' = after
        /\ channel' = members
        /\ \E order \in IterationOrders(AffectedRooms(s)) :
             LET entries == [ i \in 1..Len(order) |-> [code |-> order[i], room |-> Null] ]
                 k == PassesRun(entries, after)
             IN /\ suspended' =
                     [suspended EXCEPT ![s] = SubSeq(entries, k + 1, Len(entries))]
                /\ last' = Handled("disconnect", s, "", Null, "ok",
                                   PassesEmit(entries, k, after, members))
                /\ db' = [db EXCEPT !.pending = @ (+) PassesSave(s, entries, k, after)]
  /\ UNCHANGED << updated, clock >>

\* The disconnect handler of s, resumed by the answer (ok or failed) to the
\* saveRoom it waited for: the passes for the next affected rooms, which
\* read those rooms as they are now, up to the next saveRoom that reaches
\* the store.
DisconnectResume(s) ==
  /\ suspended[s] # << >>
  /\ ~db.stalled
  /\ \E op \in BagToSet(db.pending), ok \in BOOLEAN :
       /\ op.then = [resume |-> s]
       /\ LET entries == suspended[s]
              k == PassesRun(entries, rooms)
          IN /\ last' = Handled("resume", s, Head(entries).code, Null, "ok",
                                PassesEmit(entries, k, rooms, channel))
             /\ suspended' = [suspended EXCEPT ![s] = SubSeq(entries, k + 1, Len(entries))]
             /\ db' = [Answered(op, ok) EXCEPT
                         !.pending = @ (+) PassesSave(s, entries, k, rooms)]
  /\ UNCHANGED << conn, rooms, channel, updated, clock >>

\* The store answers an operation that no loop waits for: a handler that
\* awaited it ends, the game-action handler with its acknowledgement.
StoreAnswers(op, ok) ==
  /\ BagIn(op, db.pending)
  /\ ~db.stalled
  /\ op.then = Null \/ "ack" \in DOMAIN op.then
  /\ db' = Answered(op, ok)
  /\ last' = IF op.then = Null
             THEN Handled("answer", "", op.code, [ok |-> ok], "ok", << >>)
             ELSE Handled("answer", op.then.ack, op.code, [ok |-> ok], "ok",
                          << Acknowledged(op.then.ack) >>)
  /\ UNCHANGED << conn, rooms, channel, updated, suspended, clock >>

\* The store stops answering (an outage with no end in sight): the
\* operations it holds stay pending.
Stall ==
  /\ db.present /\ ~db.stalled
  /\ db' = [db EXCEPT !.stalled = TRUE]
  /\ UNCHANGED << conn, rooms, channel, last, updated, suspended, clock >>

\* ------------------------------------------------------------------ cleanup
\* An hour passes.
Advance ==
  /\ clock < MaxTime
  /\ clock' = clock + 1
  /\ UNCHANGED << conn, rooms, channel, last, updated, suspended, db >>

\* roomManager.getExpiredRooms
GetExpiredRooms ==
  { c \in DOMAIN rooms : clock - rooms[c].createdAt > ROOM_LIFETIME }

\* The registry after roomManager.deleteRoom for each of the codes.
Without(registry, codes) == [ c \in DOMAIN registry \ codes |-> registry[c] ]

\* Detached, for rooms that leave the registry.
DetachedAll(codes) ==
  [ s \in Sockets |->
      [ i \in 1..Len(suspended[s]) |->
          IF /\ suspended[s][i].code \in codes
             /\ suspended[s][i].room = Null
             /\ suspended[s][i].code \in DOMAIN rooms
          THEN [code |-> suspended[s][i].code, room |-> rooms[suspended[s][i].code]]
          ELSE suspended[s][i] ] ]

\* The number of passes the loop of the cleanup makes over the codes before
\* it waits for the store: deleteRoom returns at once when roomsCollection
\* is not set, and awaits deleteOne otherwise.
SweepRun(codes) ==
  IF codes = << >> THEN 0 ELSE IF db.present THEN 1 ELSE Len(codes)

\* The loop of the cleanup over the codes it has still to delete, up to its
\* next wait: roomManager.deleteRoom, then deleteRoom of the bridge (bridge
\* is db as the loop finds it).
Sweep(op, codes, bridge) ==
  LET k == SweepRun(codes)
      gone == { codes[i] : i \in 1..k }
  IN /\ rooms' = Without(rooms, gone)
     /\ suspended' = DetachedAll(gone)
     /\ db' = [bridge EXCEPT !.pending = @ (+)
                 (IF k > 0 /\ db.present
                  THEN SetToBag({StoreOp("delete", codes[k],
                                         [sweep |-> SubSeq(codes, k + 1, Len(codes))])})
                  ELSE EmptyBag)]
     /\ last' = Handled(op, "", "", [deleted |-> gone], "ok", << >>)
     /\ UNCHANGED << conn, channel, updated, clock >>

\* The setInterval callback: getExpiredRooms, then the loop.
Cleanup ==
  \E order \in IterationOrders(GetExpiredRooms) : Sweep("cleanup", order, db)

\* The cleanup resumed by the answer to the deleteOne it waited for.
CleanupAnswered(ok) ==
  /\ ~db.stalled
  /\ \E op \in BagToSet(db.pending) :
       /\ "sweep" \in DOMAIN op.then
       /\ Sweep("sweep", op.then.sweep, Answered(op, ok))

CleanupResume == \E ok \in BOOLEAN : CleanupAnswered(ok)

\* ------------------------------------------------------------------ engine
\* The engine (gameEngine.js).  A game state is a record of deck, hands
\* (hands[i + 1] is the hand of player i), the four pile tops,
\* currentPlayer, numPlayers, handSize, minCardsPerTurn, maxCard,
\* backtrackAmount, cardsPlayedThisTurn, version, gameStatus and playLog
\* (the hints, the time stamps and the texts of the log are left out).
Piles == {"ascending1", "ascending2", "descending1", "descending2"}

\* JavaScript's undefined (the element of an array at an index it has not).
Undefined == [undefined |-> TRUE]

\* hands[playerIndex][cardIndex], both counted from 0 as in the source.
CardAt(hands, playerIndex, cardIndex) ==
  IF cardIndex \in 0..(Len(hands[playerIndex + 1]) - 1)
  THEN Number(hands[playerIndex + 1][cardIndex + 1])
  ELSE Undefined

\* The slip of leaving the step back out of the rule.
isValidPlayForwardOnly(card, pileTop, isAscending, backtrackAmount) ==
  /\ card # Undefined
  /\ IF isAscending THEN card.number > pileTop ELSE card.number < pileTop

\* isValidPlay: every comparison with undefined is false.
isValidPlay(card, pileTop, isAscending, backtrackAmount) ==
  /\ card # Undefined
  /\ IF isAscending
     THEN card.number > pileTop \/ card.number = pileTop - backtrackAmount
     ELSE card.number < pileTop \/ card.number = pileTop + backtrackAmount

hasLegalMove(hand, piles, backtrackAmount) ==
  \E i \in 1..Len(hand) :
    \/ isValidPlay(Number(hand[i]), piles.ascending1, TRUE, backtrackAmount)
    \/ isValidPlay(Number(hand[i]), piles.ascending2, TRUE, backtrackAmount)
    \/ isValidPlay(Number(hand[i]), piles.descending1, FALSE, backtrackAmount)
    \/ isValidPlay(Number(hand[i]), piles.descending2, FALSE, backtrackAmount)

checkLossCondition(hands, piles, currentPlayer, backtrackAmount) ==
  /\ Len(hands[currentPlayer + 1]) > 0
  /\ ~hasLegalMove(hands[currentPlayer + 1], piles, backtrackAmount)

checkWinCondition(hands, deck) ==
  deck = << >> /\ \A i \in 1..Len(hands) : hands[i] = << >>

\* dealInitialHands: hand i takes the next handSize cards of the deck, or
\* what is left of it.
dealInitialHands(deck, numPlayers, handSize) ==
  LET dealt == IF numPlayers * handSize < Len(deck)
               THEN numPlayers * handSize ELSE Len(deck)
      upTo(i) == IF i * handSize < dealt THEN i * handSize ELSE dealt
  IN [ hands |-> [ i \in 1..numPlayers |->
                     SubSeq(deck, upTo(i - 1) + 1, upTo(i)) ],
       remainingDeck |-> SubSeq(deck, dealt + 1, Len(deck)) ]

\* initializeGame, for the deck that shuffleDeck returned.
initializeGame(deck, numPlayers, handSize, minCardsPerTurn, maxCard, backtrackAmount) ==
  [ deck |-> dealInitialHands(deck, numPlayers, handSize).remainingDeck,
    hands |-> dealInitialHands(deck, numPlayers, handSize).hands,
    ascending1 |-> 0,
    ascending2 |-> 0,
    descending1 |-> maxCard + 1,
    descending2 |-> maxCard + 1,
    currentPlayer |-> 0,
    numPlayers |-> numPlayers,
    handSize |-> handSize,
    minCardsPerTurn |-> minCardsPerTurn,
    maxCard |-> maxCard,
    backtrackAmount |-> backtrackAmount,
    cardsPlayedThisTurn |-> 0,
    version |-> 0,
    gameStatus |-> "playing",
    playLog |-> << >> ]

\* The slip of passing the turn on with the card.
PlacedAndPassed(gameState, playerIndex, cardIndex, pileType) ==
  [gameState EXCEPT
     !.hands[playerIndex + 1] = RemoveAt(@, cardIndex + 1),
     ![pileType] = gameState.hands[playerIndex + 1][cardIndex + 1],
     !.currentPlayer = (@ + 1) % gameState.numPlayers,
     !.cardsPlayedThisTurn = 0,
     !.playLog = Append(@, [type |-> "play", player |-> playerIndex,
                            card |-> gameState.hands[playerIndex + 1][cardIndex + 1],
                            pile |-> pileType])]

\* The state playCard builds for a valid play: the card leaves the hand and
\* tops the pile, the count of the turn goes up, the log gets its entry; the
\* deck and the current player stay.
Placed(gameState, playerIndex, cardIndex, pileType) ==
  [gameState EXCEPT
     !.hands[playerIndex + 1] = RemoveAt(@, cardIndex + 1),
     ![pileType] = gameState.hands[playerIndex + 1][cardIndex + 1],
     !.cardsPlayedThisTurn = @ + 1,
     !.playLog = Append(@, [type |-> "play", player |-> playerIndex,
                            card |-> gameState.hands[playerIndex + 1][cardIndex + 1],
                            pile |-> pileType])]

\* The win and loss checks at the end of playCard.
Judged(newGameState) ==
  IF checkWinCondition(newGameState.hands, newGameState.deck)
  THEN [newGameState EXCEPT !.gameStatus = "won"]
  ELSE IF checkLossCondition(newGameState.hands,
                             [ p \in Piles |-> newGameState[p] ],
                             newGameState.currentPlayer,
                             newGameState.backtrackAmount)
  THEN [newGameState EXCEPT !.gameStatus = "lost"]
  ELSE newGameState

\* playCard: what it returns (it writes nothing into its argument).
playCard(gameState, playerIndex, cardIndex, pileType) ==
  IF playerIndex # gameState.currentPlayer
  THEN [success |-> FALSE, error |-> "Not your turn!"]
  ELSE IF pileType \notin Piles
  THEN [success |-> FALSE, error |-> "Invalid pile type!"]
  ELSE IF ~isValidPlay(CardAt(gameState.hands, playerIndex, cardIndex),
                       gameState[pileType],
                       pileType \in {"ascending1", "ascending2"},
                       gameState.backtrackAmount)
  THEN [success |-> FALSE, error |-> "Invalid move!"]
  ELSE [success |-> TRUE,
        newGameState |-> Judged(Placed(gameState, playerIndex, cardIndex, pileType))]

\* The loop that looks for the next player with cards: it gives up after
\* numPlayers skips.
RECURSIVE SkipEmptyHands(_, _, _, _)
SkipEmptyHands(hands, nextPlayer, skippedPlayers, numPlayers) ==
  IF Len(hands[nextPlayer + 1]) = 0 /\ skippedPlayers < numPlayers
  THEN SkipEmptyHands(hands, (nextPlayer + 1) % numPlayers, skippedPlayers + 1, numPlayers)
  ELSE nextPlayer

\* The number of cards endTurn draws: one for each card played this turn,
\* as long as the deck has one.
CardsDrawn(gameState) ==
  IF gameState.cardsPlayedThisTurn < Len(gameState.deck)
  THEN gameState.cardsPlayedThisTurn ELSE Len(gameState.deck)

\* The slip of asking for minCardsPerTurn whatever the deck.
RequiredWhateverTheDeck(gameState) == gameState.minCardsPerTurn

\* requiredCards of endTurn
RequiredCards(gameState) ==
  IF gameState.deck = << >> THEN 1 ELSE gameState.minCardsPerTurn

\* endTurn: what it returns.
endTurn(gameState) ==
  LET cur == gameState.currentPlayer
      after(p) == (p + 1) % gameState.numPlayers
      requiredCards == RequiredCards(gameState)
      newHands == [gameState.hands EXCEPT ![cur + 1] =
                     @ \o SubSeq(gameState.deck, 1, CardsDrawn(gameState))]
  IN IF gameState.hands[cur + 1] = << >>
     THEN [success |-> TRUE,
           newGameState |->
             [gameState EXCEPT
                !.currentPlayer = SkipEmptyHands(gameState.hands, after(cur), 0,
                                                 gameState.numPlayers),
                !.cardsPlayedThisTurn = 0]]
     ELSE IF gameState.cardsPlayedThisTurn < requiredCards
     THEN [success |-> FALSE, error |-> [mustPlay |-> requiredCards]]
     ELSE [success |-> TRUE,
           newGameState |->
             [gameState EXCEPT
                !.hands = newHands,
                !.deck = SubSeq(@, CardsDrawn(gameState) + 1, Len(@)),
                !.currentPlayer = SkipEmptyHands(newHands, after(cur), 0,
                                                 gameState.numPlayers),
                !.cardsPlayedThisTurn = 0]]

\* The object that was passed to endTurn, after the call: newHands is a
\* copy of the array of hands and not of the hands, so the cards pushed
\* onto newHands[currentPlayer] are pushed onto the hand of the argument.
endTurnLeaves(gameState) ==
  IF gameState.hands[gameState.currentPlayer + 1] # << >> /\ endTurn(gameState).success
  THEN [gameState EXCEPT !.hands = endTurn(gameState).newGameState.hands]
  ELSE gameState

\* ------------------------------------------------------------------ client
\* The client (App.jsx), as far as its gameState goes.  Of a client:
\* gameState is the React state as last set, captured is the gameState of
\* the latest render, which the socket listeners and the handlers of that
\* render closed over, stale tells that gameState was set since that
\* render, myPlayerIndex is the seat, sent are the game-action payloads
\* emitted, heard is the latest message a listener handled.

\* socket.on('room-created') and socket.on('room-joined')
OnSeated(c, body) == [c EXCEPT !.myPlayerIndex = Number(body.playerIndex)]

\* socket.on('game-started') and socket.on('rejoined'): setGameState.
OnState(c, body) == [c EXCEPT !.gameState = body.gameState, !.stale = TRUE]

\* socket.on('game-update'): the gameState of the test is the one the
\* listener closed over.
OnGameUpdate(c, body) ==
  IF \/ c.captured = Null
     \/ VersionOr0(body.gameState) = 0
     \/ VersionOr0(c.captured) = 0
     \/ body.gameState.version > c.captured.version
  THEN [c EXCEPT !.gameState = body.gameState, !.stale = TRUE]
  ELSE c

\* The events whose listeners are modelled.
Listened == {"room-created", "room-joined", "game-started", "rejoined", "game-update"}

\* What the listeners set besides the seat and the gameState: setIsHost,
\* setScreen, setRoomPlayers, setNumPlayers.
OnLobby(c, ev, body) ==
  IF ev = "room-created" THEN [c EXCEPT !.isHost = TRUE, !.screen = "lobby"]
  ELSE IF ev = "room-joined" THEN [c EXCEPT !.isHost = FALSE, !.screen = "lobby"]
  ELSE IF ev = "room-update"
  THEN [c EXCEPT !.roomPlayers = body.players, !.numPlayers = body.numPlayers]
  ELSE IF ev = "game-started" THEN [c EXCEPT !.screen = "game"]
  ELSE IF ev = "rejoined"
  THEN [c EXCEPT !.roomPlayers = body.players, !.screen = body.screen]
  ELSE c

\* The listener of ev runs on a message.
On(c, ev, body) ==
  [ OnLobby(IF ev \in {"room-created", "room-joined"} THEN OnSeated(c, body)
            ELSE IF ev \in {"game-started", "rejoined"} THEN OnState(c, body)
            ELSE IF ev = "game-update" THEN OnGameUpdate(c, body)
            ELSE c,
            ev, body)
    EXCEPT !.heard = [ev |-> ev, body |-> body] ]

\* A message arrives at the client of s.
Deliver(s, ev, body) ==
  client' = [client EXCEPT ![s] = On(client[s], ev, body)]

\* What the functions of a render read of the connection: isConnected and
\* pendingActions as that render had them.
Closure(c) ==
  [isConnected |-> c.isConnected, pendingActions |-> c.pendingActions]

\* The client after React has rendered it with the state as last set: the
\* handlers are those of this render, the effect of the game listeners
\* registers them again, and the effect of the connection listeners does
\* when pendingActions, its dependency, is another array.
Rendered(c) ==
  [c EXCEPT !.captured = c.gameState, !.stale = FALSE,
            !.seen = Closure(c),
            !.listening = IF c.pendingActions = c.seen.pendingActions
                          THEN @ ELSE Closure(c)]

\* React renders the client of s with the state as last set, and the effect
\* registers the listeners again.
Render(s) ==
  /\ client[s].stale \/ client[s].seen # Closure(client[s])
  /\ client' = [client EXCEPT ![s] = Rendered(client[s])]

\* const maxRetries = 3
maxRetries == 3

\* An emission of sendGameAction(gameState, retryCount) and what it has
\* left to run: the 5-second timeout (timeout, until it fires or is
\* cleared), the callback of the emit (called once it has run) and the
\* 1-second timer the callback sets on an error (again).
Attempt(gameState, retryCount) ==
  [gameState |-> gameState, retryCount |-> retryCount,
   timeout |-> TRUE, called |-> FALSE, again |-> FALSE]

\* gameState.version as === compares it: Null for undefined.
VersionField(gameState) ==
  IF "version" \in DOMAIN gameState THEN Number(gameState.version) ELSE Null

\* pendingActions.some(a => a.gameState.version === gameState.version)
AlreadyQueued(pendingActions, gameState) ==
  \E i \in 1..Len(pendingActions) :
    VersionField(pendingActions[i]) = VersionField(gameState)

\* sendGameAction(gameState, retryCount), the function of the render whose
\* isConnected and pendingActions are closure: offline it queues the state
\* unless one of its version is queued, online it arms the timeout and
\* emits 'game-action'.
sendGameAction(c, closure, gameState, retryCount) ==
  IF ~closure.isConnected
  THEN IF AlreadyQueued(closure.pendingActions, gameState) THEN c
       ELSE [c EXCEPT !.pendingActions = Append(@, gameState)]
  ELSE [c EXCEPT !.sent = Append(@, gameState),
                 !.attempts = Append(@, Attempt(gameState, retryCount))]

\* sendGameAction(newState), called by a handler of the latest render.
SendGameAction(c, gameState) == sendGameAction(c, c.seen, gameState, 0)

\* The client after a handler of the latest render has called an engine
\* function on its gameState: the object is left as the call left it, and
\* it is the state as last set unless that was set since.
Handed(c, left) ==
  [c EXCEPT !.captured = left,
            !.gameState = IF c.stale THEN @ ELSE left]

\* handlePlayCard(pileType) with the card selectedCard picked.
HandlePlayCard(s, selectedCard, pileType) ==
  LET c == client[s] IN
  /\ c.captured # Null
  /\ c.myPlayerIndex = Number(c.captured.currentPlayer)
  /\ LET result == playCard(c.captured, c.captured.currentPlayer, selectedCard, pileType)
     IN client' = [client EXCEPT ![s] =
                     IF result.success
                     THEN SendGameAction(c, result.newGameState)
                     ELSE c]

\* handleEndTurn
HandleEndTurn(s) ==
  LET c == client[s] IN
  /\ c.captured # Null
  /\ c.myPlayerIndex = Number(c.captured.currentPlayer)
  /\ LET result == endTurn(c.captured)
     IN client' = [client EXCEPT ![s] =
                     IF result.success
                     THEN SendGameAction(Handed(c, endTurnLeaves(c.captured)),
                                         result.newGameState)
                     ELSE c]

\* ------------------------------------------------------------------ Next
SeatCount(code) == IF code \in DOMAIN rooms THEN Len(rooms[code].players) ELSE 0

\* A join-room or rejoin-room that adds a seat is explored below MaxSeats.
MayAddSeat(code) == SeatCount(code) < MaxSeats

HoldsIndex(code, playerIndex) ==
  /\ code \in DOMAIN rooms
  /\ playerIndex \in TakenIndices(rooms[code].players)

\* A game-action is explored below MaxVersion.
MayUpdate(code) ==
  code \in DOMAIN rooms => VersionOr0(rooms[code].gameState) < MaxVersion

\* The event counter: counted up to MaxEvents, or left alone.
Count(counted) ==
  IF counted THEN events < MaxEvents /\ events' = events + 1
  ELSE UNCHANGED events

\* A step of the server alone: no client and no engine call is part of the
\* specification.
Offstage == UNCHANGED << client, wire, game, returned >>

\* One event handled by the server, with its inputs drawn from the sockets
\* S, room codes C, names N, payloads G and seat indices I.
Handle(S, C, N, G, I, counted) ==
  \/ \E s \in S, n \in N, c \in C : CreateRoom(s, n, c) /\ Count(counted) /\ Offstage
  \/ \E s \in S, n \in N, c \in C :
       MayAddSeat(c) /\ JoinRoom(s, n, c) /\ Count(counted) /\ Offstage
  \/ \E s \in S, n \in N, i \in I, c \in C :
       /\ HoldsIndex(c, i) \/ MayAddSeat(c)
       /\ RejoinRoom(s, n, i, c) /\ Count(counted) /\ Offstage
  \/ \E s \in S, c \in C, g \in G : StartGame(s, c, g) /\ Count(counted) /\ Offstage
  \/ \E s \in S, c \in C, g \in G :
       MayUpdate(c) /\ GameAction(s, c, g) /\ Count(counted) /\ Offstage
  \/ \E s \in S, c \in C : SendHint(s, c) /\ Count(counted) /\ Offstage
  \/ \E s \in S, c \in C : LeaveRoom(s, c) /\ Count(counted) /\ Offstage
  \/ \E s \in S : Disconnect(s) /\ Count(counted) /\ Offstage

\* One payload, for the specifications that explore the seats.
OnePayload == { [content |-> "x", version |-> 0] }

\* One room, two connections, every payload: the game-state events in full.
Next == Handle({"s1", "s2"}, {"R1"}, {"ann"}, Payloads, Indices, FALSE)

Spec == Init /\ [][Next]_vars

\* One room, three connections, one payload: the seats in full.
NextSeats == Handle(Sockets, {"R1"}, {"ann"}, OnePayload, Indices, FALSE)

SpecSeats == Init /\ [][NextSeats]_vars

\* Two rooms, behaviours of MaxEvents events.
NextRooms ==
  \/ Handle({"s1", "s2"}, Codes, Names, OnePayload, {0, 1}, TRUE)
  \/ \E s \in Sockets : DisconnectResume(s) /\ Count(TRUE) /\ Offstage
  \/ \E op \in BagToSet(db.pending), ok \in BOOLEAN :
       StoreAnswers(op, ok) /\ Count(TRUE) /\ Offstage

SpecRooms == InitStore /\ [][NextRooms]_vars

\* create-room, join-room and leave-room alone (addPlayerToRoom and
\* removePlayer on a room that createRoom made).
NextLobby ==
  \/ \E s \in Sockets, n \in Names :
       CreateRoom(s, n, "R1") /\ Count(FALSE) /\ Offstage
  \/ \E s \in Sockets, n \in Names :
       /\ SeatCount("R1") < MaxLobbySeats
       /\ JoinRoom(s, n, "R1") /\ Count(FALSE) /\ Offstage
  \/ \E s \in Sockets : LeaveRoom(s, "R1") /\ Count(FALSE) /\ Offstage

SpecLobby == Init /\ [][NextLobby]_vars

\* The decks shuffleDeck is taken to return, three of the orders of the
\* cards 1 .. MaxCard: rising, falling, and from both ends in turn.
ShufflesOf(maxCard) ==
  { [ i \in 1..maxCard |-> i ],
    [ i \in 1..maxCard |-> maxCard + 1 - i ],
    [ i \in 1..maxCard |-> IF i % 2 = 1 THEN (i + 1) \div 2
                                        ELSE maxCard + 1 - (i \div 2) ] }

Shuffles == ShufflesOf(MaxCard)

\* The states a host can start a game with.
StartedGames ==
  { initializeGame(deck, NumPlayers, HandSize, MinCardsPerTurn, MaxCard, BacktrackAmount) :
      deck \in Shuffles }

\* A step of a client alone.
ServerIdle ==
  UNCHANGED << conn, rooms, channel, last, updated, events, suspended, clock, db >>

\* The states the server can relay to the client of s in a 'game-update':
\* a payload the client has emitted, under a version 1 .. MaxVersion.
Relayed(s) ==
  { [client[s].sent[i] EXCEPT !.version = v] :
      i \in 1..Len(client[s].sent), v \in 1..MaxVersion }

\* One client, the creator of its room, on the games of StartedGames: what
\* it is sent arrives in any order and any number of times.
NextClient ==
  \/ /\ Deliver("s1", "room-created", [roomCode |-> "R1", playerIndex |-> 0])
     /\ ServerIdle /\ UNCHANGED << wire, game, returned >>
  \/ \E g \in StartedGames :
       /\ Deliver("s1", "game-started", [gameState |-> g])
       /\ ServerIdle /\ UNCHANGED << wire, game, returned >>
  \/ \E g \in Relayed("s1") :
       /\ Deliver("s1", "game-update", [gameState |-> g])
       /\ ServerIdle /\ UNCHANGED << wire, game, returned >>
  \/ Render("s1") /\ ServerIdle /\ UNCHANGED << wire, game, returned >>
  \/ \E selectedCard \in 0..HandSize, pileType \in Piles :
       /\ Len(client["s1"].sent) < MaxSent
       /\ HandlePlayCard("s1", selectedCard, pileType)
       /\ ServerIdle /\ UNCHANGED << wire, game, returned >>
  \/ /\ Len(client["s1"].sent) < MaxSent
     /\ HandleEndTurn("s1") /\ ServerIdle /\ UNCHANGED << wire, game, returned >>

SpecClient == Init /\ [][NextClient]_vars

\* The messages of a handler's emissions that a modelled listener takes,
\* one for each recipient.
Messages(out) ==
  { [to |-> s, ev |-> out[i].ev, body |-> out[i].body] :
      i \in { j \in 1..Len(out) : out[j].ev \in Listened },
      s \in UNION { out[j].to : j \in 1..Len(out) } }
  \cap { m \in [to : Sockets, ev : Listened,
                 body : { out[j].body : j \in 1..Len(out) }] :
           \E j \in 1..Len(out) :
             m.to \in out[j].to /\ m.ev = out[j].ev /\ m.body = out[j].body }

\* A step of the server whose emissions go out to the clients.
Transmit ==
  /\ wire' = wire \cup Messages(last'.out)
  /\ UNCHANGED << client, game, returned >>

\* A message on the wire arrives.  The messages of one socket that set the
\* state whatever it is ('game-started', 'rejoined') arrive before the
\* 'game-update' messages sent after them; the 'game-update' messages
\* arrive in any order.
Receive(m) ==
  /\ m \in wire
  /\ m.ev = "game-update" =>
       ~\E n \in wire : n.to = m.to /\ n.ev \in {"game-started", "rejoined"}
  /\ wire' = wire \ {m}
  /\ Deliver(m.to, m.ev, m.body)
  /\ ServerIdle
  /\ UNCHANGED << game, returned >>

\* The server and the clients of two sockets on one room: the room is
\* created, joined, started once and played, in behaviours of MaxEvents
\* events of the server.
NextRelay ==
  \/ \E s \in {"s1", "s2"} : CreateRoom(s, "ann", "R1") /\ Count(TRUE) /\ Transmit
  \/ \E s \in {"s1", "s2"} :
       MayAddSeat("R1") /\ JoinRoom(s, "ann", "R1") /\ Count(TRUE) /\ Transmit
  \/ \E s \in {"s1", "s2"}, g \in OnePayload :
       /\ "R1" \in DOMAIN rooms => ~rooms["R1"].started
       /\ StartGame(s, "R1", g) /\ Count(TRUE) /\ Transmit
  \/ \E s \in {"s1", "s2"}, g \in Payloads :
       /\ "R1" \in DOMAIN rooms /\ rooms["R1"].started
       /\ MayUpdate("R1") /\ GameAction(s, "R1", g) /\ Count(TRUE) /\ Transmit
  \/ \E m \in wire : Receive(m)
  \/ \E s \in {"s1", "s2"} :
       Render(s) /\ ServerIdle /\ UNCHANGED << wire, game, returned >>

SpecRelay == Init /\ [][NextRelay]_vars

\* Every message on the wire is delivered in the end, and React renders a
\* client whose state was set.
SpecRelayFair ==
  /\ SpecRelay
  /\ WF_vars(\E m \in wire : Receive(m))
  /\ \A s \in {"s1", "s2"} :
       WF_vars(Render(s) /\ ServerIdle /\ UNCHANGED << wire, game, returned >>)

\* The registry under the cleanup timer, with the store connected: rooms are
\* created under either code, hours pass, the timer ticks, the store answers.
NextSweep ==
  \/ \E code \in Codes : CreateRoom("s1", "ann", code) /\ Count(TRUE) /\ Offstage
  \/ Advance /\ Count(FALSE) /\ Offstage
  \/ Cleanup /\ Count(FALSE) /\ Offstage
  \/ CleanupResume /\ Count(FALSE) /\ Offstage
  \/ \E op \in BagToSet(db.pending), ok \in BOOLEAN :
       StoreAnswers(op, ok) /\ Count(FALSE) /\ Offstage

SpecSweep == InitStore /\ [][NextSweep]_vars

\* The game-action handler with the store connected: a room is created and
\* played on, the store answers the saves or stops answering.
AnswersStep ==
  \E op \in BagToSet(db.pending), ok \in BOOLEAN :
    StoreAnswers(op, ok) /\ Count(FALSE) /\ Offstage

NextAck ==
  \/ CreateRoom("s1", "ann", "R1") /\ Count(TRUE) /\ Offstage
  \/ \E s \in {"s1", "s2"}, code \in Codes, g \in Payloads :
       MayUpdate(code) /\ GameAction(s, code, g) /\ Count(TRUE) /\ Offstage
  \/ AnswersStep
  \/ Stall /\ Count(FALSE) /\ Offstage

SpecAck == InitStore /\ [][NextAck]_vars

\* A store that has not stopped answering answers what it holds.
SpecAckFair == SpecAck /\ WF_vars(AnswersStep)

\* The games the engine alone is explored on: those a host can start, the
\* same with one card more to play in a turn, and both with one card less
\* in the game, which leaves no deck after the deal.
EngineGames ==
  { initializeGame(deck, NumPlayers, HandSize, minCardsPerTurn, Len(deck),
                   BacktrackAmount) :
      deck \in ShufflesOf(MaxCard) \cup ShufflesOf(MaxCard - 1),
      minCardsPerTurn \in {MinCardsPerTurn, MinCardsPerTurn + 1} }

\* The engine alone, on a game a host started.  returned is the latest
\* call: the function, the state it was given, its arguments, what it
\* returned and the given object as the call left it; game is the state the
\* caller goes on with.
InitEngine ==
  /\ ServerInit(FALSE) /\ ClientInit
  /\ game \in EngineGames
  /\ returned = Null

\* The pile names a caller may pass: the four piles and one that is none.
PileNames == Piles \cup {"discard"}

\* playCard(game, playerIndex, cardIndex, pileType), called while fewer
\* than MaxPlays cards are on the piles.
Play(playerIndex, cardIndex, pileType) ==
  LET result == playCard(game, playerIndex, cardIndex, pileType)
  IN /\ Len(game.playLog) < MaxPlays
     /\ returned' = [call |-> "playCard", given |-> game,
                     playerIndex |-> playerIndex, cardIndex |-> cardIndex,
                     pileType |-> pileType, result |-> result, left |-> game]
     /\ game' = IF result.success THEN result.newGameState ELSE game
     /\ ServerIdle /\ UNCHANGED << client, wire >>

\* endTurn(game)
EndOfTurn ==
  LET result == endTurn(game)
  IN /\ returned' = [call |-> "endTurn", given |-> game, result |-> result,
                     left |-> endTurnLeaves(game)]
     /\ game' = IF result.success THEN result.newGameState ELSE game
     /\ ServerIdle /\ UNCHANGED << client, wire >>

\* The player indices from 0 to NumPlayers (no player has the last) and the
\* card indices from 0 to HandSize (no hand has a card at the last).
NextEngine ==
  \/ \E playerIndex \in 0..NumPlayers, cardIndex \in 0..HandSize, pileType \in PileNames :
       Play(playerIndex, cardIndex, pileType)
  \/ EndOfTurn

SpecEngine == InitEngine /\ [][NextEngine]_vars

\* The lobby screen shows the Start Game button:
\* isHost && roomPlayers.length === numPlayers.
StartEnabled(c) ==
  /\ c.screen = "lobby"
  /\ c.isHost
  /\ c.numPlayers = Number(Len(c.roomPlayers))

\* The client of s after the listeners have run, in the order of the
\* emissions, on those of the emissions that go to s.
RECURSIVE Heard(_, _, _)
Heard(c, s, out) ==
  IF out = << >> THEN c
  ELSE Heard(IF s \in Head(out).to /\ Head(out).ev \in Listened \cup {"room-update"}
             THEN On(c, Head(out).ev, Head(out).body)
             ELSE c,
             s, Tail(out))

\* The emissions of the step reach the clients.
Hear ==
  /\ client' = [ s \in Sockets |-> Heard(client[s], s, last'.out) ]
  /\ UNCHANGED << wire, game, returned >>

\* The user of the client of s presses a button that the screen shows:
\* Create Room or Join Room on the menu, Start Game in the lobby.
Click(s, button, code, deck) ==
  IF button = "create"
  THEN client[s].screen = "menu" /\ CreateRoom(s, "ann", code)
  ELSE IF button = "join"
  THEN client[s].screen = "menu" /\ JoinRoom(s, "ann", code)
  ELSE /\ StartEnabled(client[s])
       /\ client[s].numPlayers # Null
       /\ StartGame(s, code,
                    initializeGame(deck, client[s].numPlayers.number, HandSize,
                                   MinCardsPerTurn, MaxCard, BacktrackAmount))

\* The number of players picked on the menu: setNumPlayers(parseInt(value)).
ChooseNumPlayers(s, n) ==
  /\ client[s].screen = "menu"
  /\ client' = [client EXCEPT ![s].numPlayers = Number(n)]
  /\ ServerIdle
  /\ UNCHANGED << wire, game, returned >>

\* The bundled client and the server together, from the menu on.
NextTable ==
  \/ \E s \in Sockets, button \in {"create", "join", "start"}, code \in Codes,
         deck \in Shuffles :
       Click(s, button, code, deck) /\ Count(FALSE) /\ Hear
  \/ \E s \in Sockets, n \in 2..3 : ChooseNumPlayers(s, n)

SpecTable == Init /\ [][NextTable]_vars

\* ------------------------------------------------------------------ claims
\* The version a stored gameState carries, 0 when nothing is stored or the
\* stored state has no version.
StoredVersion(room) ==
  IF room.gameState = Null \/ "version" \notin DOMAIN room.gameState
  THEN 0
  ELSE room.gameState.version

\* The event handled last was op and the handler accepted it.
Accepted(op) == last.op = op /\ last.result = "ok"

\* C1: a game-action addressed to an existing room stores the submitted
\* payload under the version stored before plus 1 (0 plus 1 when no state or
\* no version was stored), whatever version the payload carried.
C1_ActionStoresNextVersion ==
  [][Accepted("game-action")' =>
       rooms'[last'.code].gameState =
         [content |-> last'.req.gameState.content,
          version |-> StoredVersion(rooms[last'.code]) + 1]]_vars

\* C1 witness: an accepted game-action whose payload carried version 0 has
\* stored version 2.
C1_Witness ==
  /\ Accepted("game-action")
  /\ last.req.gameState = [content |-> "y", version |-> 0]
  /\ rooms[last.code].gameState = [content |-> "y", version |-> 2]

\* C2: of two game-actions accepted one after the other on the same room,
\* whatever was handled between them, the second stores the version the
\* first stored plus 1 (updated holds the version the first one broadcast).
C2_ConsecutiveActionsCountByOne ==
  [][(Accepted("game-action")' /\ updated[last'.code] > 0) =>
       rooms'[last'.code].gameState.version = updated[last'.code] + 1]_vars

\* The event handled last is a game-action whose payload was computed from
\* a state of version v.
ActionFromVersion(v) ==
  /\ last.op = "game-action"
  /\ "version" \in DOMAIN last.req.gameState
  /\ last.req.gameState.version = v

\* C3: when an accepted game-action computed from the stored version v is
\* followed by a game-action of another socket computed from the same v,
\* the second is accepted as well: version v+1 then v+2 is stored and
\* broadcast, and the stored content is the second payload's.
C3_StaleActionAcceptedInOrder ==
  [][\A v \in 0..MaxVersion :
       ( /\ Accepted("game-action") /\ ActionFromVersion(v)
         /\ StoredVersion(rooms[last.code]) = v + 1
         /\ ActionFromVersion(v)'
         /\ last'.code = last.code /\ last'.sock # last.sock )
       => /\ Accepted("game-action")'
          /\ rooms'[last'.code].gameState =
               [content |-> last'.req.gameState.content, version |-> v + 2]
          /\ last.out[1].ev = "game-update"
          /\ last.out[1].body.gameState.version = v + 1
          /\ last'.out =
               << Emit(channel[last'.code], "game-update",
                       [gameState |-> rooms'[last'.code].gameState]),
                  Emit({last'.sock}, "ack", [success |-> TRUE]) >>]_vars

\* C3 witness: the second of two sockets had its payload, computed from
\* version 0, accepted, stored and broadcast as version 2.
C3_Witness ==
  /\ Accepted("game-action") /\ ActionFromVersion(0)
  /\ last.sock = "s2"
  /\ rooms[last.code].gameState = [content |-> "x", version |-> 2]
  /\ last.out[1] = Emit({"s1", "s2"}, "game-update",
                        [gameState |-> [content |-> "x", version |-> 2]])

\* The socket is bound to the seat of the room whose playerIndex is 0.
HoldsSeatZero(room, socketId) ==
  \E i \in 1..Len(room.players) :
    room.players[i].id = socketId /\ room.players[i].playerIndex = 0

\* C4: a start-game request succeeds only if the requesting socket is the
\* one bound to the seat with playerIndex 0.
C4_OnlySeatZeroStarts ==
  [][Accepted("start-game")' => HoldsSeatZero(rooms[last'.code], last'.sock)]_vars

\* C5: an accepted join-room gives the new seat the smallest index that no
\* seat of the room held, adds that seat for the requesting socket and
\* leaves the seats that were there as they were.
C5_JoinTakesLowestFreeIndex ==
  [][Accepted("join-room")' =>
       LET before == rooms[last'.code].players
           after  == rooms'[last'.code].players
           k      == last'.out[1].body.playerIndex
       IN /\ k \notin TakenIndices(before)
          /\ \A j \in 0..(k - 1) : j \in TakenIndices(before)
          /\ \E pos \in 1..Len(after) :
               /\ after[pos] = Seat(last'.sock, last'.req.playerName, k, TRUE)
               /\ RemoveAt(after, pos) = before]_vars

\* C5 witness: with the seats 0 and 2 taken, the join got 1.
C5_Witness ==
  /\ Accepted("join-room")
  /\ last.out[1].body.playerIndex = 1
  /\ TakenIndices(rooms[last.code].players) = {0, 1, 2}

\* C6, as stated: the indices held by the seats of the room are always
\* exactly 0 .. n-1 for its n seats.
C6_Original ==
  \A c \in DOMAIN rooms :
    TakenIndices(rooms[c].players) = 0..(Len(rooms[c].players) - 1)

\* C6, amended: through joins and leaves the n seats of a room hold n
\* different indices; a leave takes away the index of the leaving seat and
\* no other, so a gap stays open below the higher seats; a join adds the
\* lowest index not in use, which is n when the indices were 0 .. n-1 and a
\* gap below n otherwise.
C6_GapsStayUntilAJoinFillsTheLowest ==
  [][\A c \in DOMAIN rooms' :
       LET seats == rooms'[c].players
           held  == TakenIndices(seats)
       IN /\ Cardinality(held) = Len(seats)
          /\ (Accepted("leave-room")' /\ last'.code = c) =>
               LET was == rooms[c].players
               IN \E pos \in 1..Len(was) :
                    /\ was[pos].id = last'.sock
                    /\ held = TakenIndices(was) \ {was[pos].playerIndex}
          /\ (Accepted("join-room")' /\ last'.code = c) =>
               LET was == rooms[c].players
                   k   == last'.out[1].body.playerIndex
               IN /\ held = TakenIndices(was) \cup {k}
                  /\ k <= Len(was)
                  /\ k = Len(was) <=> TakenIndices(was) = 0..(Len(was) - 1)]_vars

\* C6 witness: the seat of index 1 has left and the seats 0 and 2 remain.
C6_Witness ==
  /\ Accepted("leave-room")
  /\ TakenIndices(rooms[last.code].players) = {0, 2}

\* C7: no two seats of one room hold the same playerIndex.
C7_IndicesUnique ==
  \A c \in DOMAIN rooms :
    \A i, j \in 1..Len(rooms[c].players) :
      rooms[c].players[i].playerIndex = rooms[c].players[j].playerIndex => i = j

\* C7 witness: a rejoin-room for an index nobody held has added a second
\* seat to a started room.
C7_Witness ==
  /\ Accepted("rejoin-room")
  /\ rooms[last.code].started
  /\ TakenIndices(rooms[last.code].players) = {0, 2}
  /\ last.req.playerIndex = 2

\* C8: in a started room whose seat of index i lost its connection, a
\* rejoin-room for i from another socket rebinds that seat to the socket
\* with connected = true, changes nothing else of the room, and is answered
\* by 'rejoined' with the stored gameState and the screen 'game'.
C8_RejoinRestoresSeatAndState ==
  [][\A c \in DOMAIN rooms :
       LET pos == IF last'.op = "rejoin-room" /\ last'.code = c
                  THEN SeatOfIndex(rooms[c], last'.req.playerIndex)
                  ELSE 0
       IN ( /\ pos # 0
            /\ rooms[c].started
            /\ ~rooms[c].players[pos].connected
            /\ rooms[c].players[pos].id # last'.sock )
          => /\ Accepted("rejoin-room")'
             /\ rooms'[c] =
                  [rooms[c] EXCEPT !.players[pos] =
                     Seat(last'.sock, last'.req.playerName,
                          last'.req.playerIndex, TRUE)]
             /\ last'.out[1] =
                  Emit({last'.sock}, "rejoined",
                       [gameState |-> rooms[c].gameState,
                        players |-> rooms'[c].players,
                        screen |-> "game"])]_vars

\* C8 witness: s2, the socket of seat 1, is gone, and s3 has rejoined as
\* seat 1 of the started room and was sent the stored state of version 2.
C8_Witness ==
  /\ Accepted("rejoin-room")
  /\ last.sock = "s3" /\ last.req.playerIndex = 1
  /\ conn["s2"] = "closed"
  /\ rooms[last.code].started
  /\ rooms[last.code].players =
       << Seat("s1", "ann", 0, TRUE), Seat("s3", "ann", 1, TRUE) >>
  /\ last.out[1].body.gameState = [content |-> "x", version |-> 2]

\* The position of the first seat of the room bound to the socket, 0 when
\* it has none.
FirstSeatOf(room, socketId) ==
  FindIndex(SeatsOfSocket(room.players, socketId))

\* C9: when a socket disconnects, every room with a seat bound to it keeps
\* that seat with connected = false if it is started and loses that seat if
\* it is not; nothing else of the room changes, and the rooms without a seat
\* of the socket do not change.
C9_DisconnectReservesOrRemoves ==
  [][last'.op = "disconnect" =>
       /\ DOMAIN rooms' = DOMAIN rooms
       /\ \A c \in DOMAIN rooms :
            LET pos == FirstSeatOf(rooms[c], last'.sock)
                was == rooms[c].players
                now == rooms'[c].players
            IN /\ [rooms'[c] EXCEPT !.players = was] = rooms[c]
               /\ pos = 0 => now = was
               /\ (pos # 0 /\ rooms[c].started) =>
                    /\ Len(now) = Len(was)
                    /\ now[pos] = Seat(was[pos].id, was[pos].name,
                                       was[pos].playerIndex, FALSE)
                    /\ \A i \in 1..Len(was) : i # pos => now[i] = was[i]
               /\ (pos # 0 /\ ~rooms[c].started) =>
                    now = RemoveAt(was, pos)]_vars

\* C9 witness: s1 disconnected with a seat in the started room R1 and a seat
\* in the lobby R2: R1 keeps the seat, disconnected, and R2 has lost it.
C9_Witness ==
  /\ last.op = "disconnect" /\ last.sock = "s1"
  /\ DOMAIN rooms = {"R1", "R2"}
  /\ rooms["R1"].started
  /\ rooms["R1"].players = << Seat("s1", "ann", 0, FALSE) >>
  /\ ~rooms["R2"].started
  /\ rooms["R2"].players = << >>

\* C10: a leave-room of a socket with a seat in the room removes one seat
\* bound to that socket, before and after the start, and changes no other
\* seat, nor started, gameState or numPlayers, nor another room; a
\* leave-room of a socket without a seat in the room changes no room.
C10_LeaveRemovesTheSeatOnly ==
  [][last'.op = "leave-room" =>
       LET c   == last'.code
           pos == IF c \in DOMAIN rooms THEN FirstSeatOf(rooms[c], last'.sock) ELSE 0
       IN IF pos = 0
          THEN rooms' = rooms
          ELSE /\ rooms'[c].players = RemoveAt(rooms[c].players, pos)
               /\ Len(rooms'[c].players) = Len(rooms[c].players) - 1
               /\ [rooms'[c] EXCEPT !.players = rooms[c].players] = rooms[c]
               /\ DOMAIN rooms' = DOMAIN rooms
               /\ \A d \in DOMAIN rooms \ {c} : rooms'[d] = rooms[d]]_vars

\* C10 witness: s2 has left the started room; its seat is gone and the
\* game state of version 1 is still stored.
C10_Witness ==
  /\ Accepted("leave-room") /\ last.sock = "s2"
  /\ rooms[last.code].started
  /\ rooms[last.code].players = << Seat("s1", "ann", 0, TRUE) >>
  /\ rooms[last.code].numPlayers = Number(2)
  /\ rooms[last.code].gameState = [content |-> "x", version |-> 1]

\* C11: a rejoin-room for an index that no seat of the existing room holds
\* is accepted, started or not, and adds exactly one seat, with that index,
\* bound to the requesting socket and connected; a join-room on an existing
\* room that has not started is accepted as well.
C11_RejoinAndJoinNeverFull ==
  [][\A c \in DOMAIN rooms :
       /\ ( /\ last'.op = "rejoin-room" /\ last'.code = c
            /\ SeatOfIndex(rooms[c], last'.req.playerIndex) = 0 )
          => /\ Accepted("rejoin-room")'
             /\ [rooms'[c] EXCEPT !.players = rooms[c].players] = rooms[c]
             /\ \E pos \in 1..Len(rooms'[c].players) :
                  /\ rooms'[c].players[pos] =
                       Seat(last'.sock, last'.req.playerName,
                            last'.req.playerIndex, TRUE)
                  /\ RemoveAt(rooms'[c].players, pos) = rooms[c].players
       /\ ( /\ last'.op = "join-room" /\ last'.code = c
            /\ ~rooms[c].started )
          => /\ Accepted("join-room")'
             /\ Len(rooms'[c].players) = Len(rooms[c].players) + 1]_vars

\* C11 witness: the room was started with one seat, and a rejoin-room for
\* the index 2 has added a second seat beyond numPlayers.
C11_Witness ==
  /\ Accepted("rejoin-room") /\ last.req.playerIndex = 2
  /\ rooms[last.code].started
  /\ rooms[last.code].numPlayers = Number(1)
  /\ rooms[last.code].players =
       << Seat("s1", "ann", 0, TRUE), Seat(last.sock, "ann", 2, TRUE) >>

\* The handler of the event handled last answered it with an error.
Rejected(op) == last.op = op /\ last.result = "error"

C13_NoHandlerThrows ==
  [][last'.op \in {"start-game", "game-action"} =>
       \/ last'.result = "ok"
       \/ /\ last'.result = "error"
          /\ rooms' = rooms
          /\ Len(last'.out) = 1 /\ last'.out[1].to = {last'.sock}]_vars

\* The step replaces the room registered under c by a new one (createRoom
\* setting a code that is in use): the life of the old room ends.
Replaced(c) == last'.op = "create-room" /\ last'.code = c

\* C14: a room that is started stays in the registry, started, whatever
\* event is handled, as long as the room is not taken out of the registry.
C14_StartedIsOneWay ==
  [][\A c \in DOMAIN rooms :
       (rooms[c].started /\ ~Replaced(c)) =>
         (c \in DOMAIN rooms' /\ rooms'[c].started)]_vars

\* C14 witness: a second start-game was accepted in a room that was started
\* and has had updates, and the room is still started.
C14_Witness ==
  /\ Accepted("start-game")
  /\ updated[last.code] = 2
  /\ rooms[last.code].started
  /\ rooms[last.code].players = << Seat("s1", "ann", 0, TRUE) >>

\* C15: numPlayers is null while the room is not started, an accepted
\* start-game sets it to the number of seats, and from then on it keeps its
\* value for the life of the room.
C15_NumPlayersFrozenAtStart ==
  [][\A c \in DOMAIN rooms' :
       /\ ~rooms'[c].started => rooms'[c].numPlayers = Null
       /\ (Accepted("start-game")' /\ last'.code = c) =>
            rooms'[c].numPlayers = Number(Len(rooms'[c].players))
       /\ (c \in DOMAIN rooms /\ rooms[c].started /\ ~Replaced(c)) =>
            rooms'[c].numPlayers = rooms[c].numPlayers]_vars

\* C16: the gameState of a room that has not started is null.
C16_NoStateBeforeStart ==
  \A c \in DOMAIN rooms : ~rooms[c].started => rooms[c].gameState = Null

\* C17: every seat of a room that has not started is connected.
C17_LobbySeatsAreConnected ==
  \A c \in DOMAIN rooms :
    ~rooms[c].started =>
      \A i \in 1..Len(rooms[c].players) : rooms[c].players[i].connected

\* C17 witness: s2 has disconnected from the lobby; its seat is gone and
\* the seat that is left is connected.
C17_Witness ==
  /\ last.op = "disconnect" /\ last.sock = "s2"
  /\ Len(last.out) = 1
  /\ ~rooms["R1"].started
  /\ rooms["R1"].players = << Seat("s1", "ann", 0, TRUE) >>

\* The state broadcasts: 'game-started' and 'game-update'.
StateBroadcasts(out) ==
  { i \in 1..Len(out) : out[i].ev \in {"game-started", "game-update"} }

\* C18: an accepted start-game or game-action emits the state it stored to
\* every member of the room's channel, and the requesting socket is one of
\* the recipients.
C18_SenderAmongRecipients ==
  [][(Accepted("start-game")' \/ Accepted("game-action")') =>
       /\ StateBroadcasts(last'.out) = {1}
       /\ last'.out[1].to = channel'[last'.code]
       /\ last'.out[1].body.gameState = rooms'[last'.code].gameState
       /\ last'.sock \in last'.out[1].to]_vars

\* C19: every assignment of a room's stored gameState and every state
\* broadcast come in pairs, in one step: an accepted start-game or
\* game-action stores a state and broadcasts that state, once, to the room's
\* channel ('game-started' and 'game-update' respectively); no other event
\* broadcasts a state or changes the stored state of a room.
C19_BroadcastsFollowAssignments ==
  [][IF Accepted("start-game")' \/ Accepted("game-action")'
     THEN /\ StateBroadcasts(last'.out) = {1}
          /\ last'.out[1] =
               Emit(channel'[last'.code],
                    IF last'.op = "start-game" THEN "game-started" ELSE "game-update",
                    [gameState |-> rooms'[last'.code].gameState])
          /\ \A c \in DOMAIN rooms \ {last'.code} :
               rooms'[c].gameState = rooms[c].gameState
     ELSE /\ StateBroadcasts(last'.out) = {}
          /\ \A c \in DOMAIN rooms :
               ~Replaced(c) =>
                 (c \in DOMAIN rooms' /\ rooms'[c].gameState = rooms[c].gameState)]_vars

\* C19 witness: a start-game has stored and broadcast a state without a
\* version over a state of version 2 that a game-action had stored.
C19_Witness ==
  /\ Accepted("start-game")
  /\ updated[last.code] = 2
  /\ rooms[last.code].gameState = [content |-> "y"]
  /\ last.out = << Emit({"s1", "s2"}, "game-started",
                        [gameState |-> [content |-> "y"]]) >>

\* The rooms that a suspended handler has written and will read again when
\* it resumes.
HeldRooms ==
  { c \in Codes :
      \E s \in Sockets : \E i \in 1..Len(suspended[s]) :
        suspended[s][i].code = c /\ suspended[s][i].room = Null }

\* C20: between the writes and the later reads that one handler makes of a
\* room, no other handler changes that room: while a handler is suspended
\* at an await with a room still to go through, every step leaves that room
\* as it is (a step that registers a new room under the code leaves the
\* room itself as it is, too).
C20_NoInterleavedMutation ==
  [][\A c \in HeldRooms :
       ~Replaced(c) => (c \in DOMAIN rooms' /\ rooms'[c] = rooms[c])]_vars

\* The step is the 'game-update' listener of the client of s handling the
\* message the client has recorded as heard.
GameUpdateHeard(s) ==
  /\ client'[s].heard # Null
  /\ client'[s].heard.ev = "game-update"
  /\ client'[s] = On(client[s], "game-update", client'[s].heard.body)

\* C21: a client that holds a game state receives a 'game-update': when the
\* version of the update is not strictly greater than the version held, the
\* held state stays as it is, and in every case the version held afterwards
\* is not lower than the version held before, whatever the order of the
\* deliveries and however many are handled between two renders.
C21_UpdatesNeverLowerTheVersion ==
  [][\A s \in Sockets :
       (GameUpdateHeard(s) /\ client[s].gameState # Null) =>
         /\ client'[s].heard.body.gameState.version <= client[s].gameState.version
              => client'[s].gameState = client[s].gameState
         /\ client'[s].gameState.version >= client[s].gameState.version]_vars

\* Every client in the channel of a started room holds the gameState the
\* server has stored for the room.
Converged ==
  \A c \in DOMAIN rooms :
    rooms[c].started =>
      \A s \in channel[c] : client[s].gameState = rooms[c].gameState

\* C22: once a game has started, no further game-action is accepted and
\* every 'game-update' emitted has been delivered (in whatever order), every
\* client in the room's channel comes to hold the gameState the server
\* stores for the room, and holds it from then on.
C22_ClientsConverge == <>[]Converged

\* The fields of a held gameState that a move changes.
HeldFields(g) ==
  IF g = Null THEN Null
  ELSE [hands |-> g.hands, deck |-> g.deck,
        piles |-> [p \in Piles |-> g[p]],
        currentPlayer |-> g.currentPlayer,
        cardsPlayedThisTurn |-> g.cardsPlayedThisTurn,
        version |-> g.version]

\* C23: a client that submits a play-card or an end-turn action (it emits
\* a 'game-action') holds the same hands, deck, piles, currentPlayer,
\* cardsPlayedThisTurn and version after submitting as before: submitting
\* applies no local update.
C23_SubmittingLeavesTheHeldState ==
  [][\A s \in Sockets :
       client'[s].sent # client[s].sent =>
         HeldFields(client'[s].gameState) = HeldFields(client[s].gameState)]_vars

\* C24: a cleanup tick removes from the registry only rooms whose age
\* (now - createdAt) is strictly greater than 3 hours, and every room it
\* keeps is left unchanged.
C24_CleanupRemovesOnlyTheExpired ==
  [][last'.op \in {"cleanup", "sweep"} =>
       /\ \A c \in DOMAIN rooms \ DOMAIN rooms' :
            clock - rooms[c].createdAt > ROOM_LIFETIME
       /\ \A c \in DOMAIN rooms' : c \in DOMAIN rooms /\ rooms'[c] = rooms[c]]_vars

\* C25: a handled create-room registers one new room under a code that no
\* room of the registry used, with the creator as its only seat at
\* playerIndex 0, and leaves every room that was in the registry unchanged.
C25_CreateRoomAddsAFreshRoom ==
  [][Accepted("create-room")' =>
       /\ last'.code \notin DOMAIN rooms
       /\ DOMAIN rooms' = DOMAIN rooms \cup {last'.code}
       /\ rooms'[last'.code].players =
            << Seat(last'.sock, last'.req.playerName, 0, TRUE) >>
       /\ \A c \in DOMAIN rooms : rooms'[c] = rooms[c]]_vars

\* The number of saves of the room of the code that the bridge has issued
\* and the store has not answered.
SavesOf(bridge, code) ==
  LET saves == { op \in BagToSet(bridge.pending) : op.kind = "save" /\ op.code = code }
  IN BagCardinality([ op \in saves |-> CopiesIn(op, bridge.pending) ])

\* The events of one room that change its durable state when they are
\* accepted (a disconnect goes over every room of the socket, and saves
\* them one pass of its loop after the other).
DurableEvents ==
  {"create-room", "join-room", "rejoin-room", "start-game", "game-action",
   "leave-room"}

\* C26: with the store connected, every accepted create-room, join-room,
\* rejoin-room, start-game, game-action or leave-room that changes the room
\* of its code issues a save of that room to the persistence bridge.
C26_EveryChangeIsSaved ==
  [][( /\ last'.op \in DurableEvents /\ last'.result = "ok"
       /\ last'.code \in DOMAIN rooms'
       /\ last'.code \in DOMAIN rooms => rooms'[last'.code] # rooms[last'.code] )
     => SavesOf(db', last'.code) = SavesOf(db, last'.code) + 1]_vars

\* The event handled last sent an acknowledgement to the socket.
AckSentTo(s) ==
  \E i \in 1..Len(last.out) : last.out[i].ev = "ack" /\ s \in last.out[i].to

\* C27: a game-action of a socket on a room that exists is followed, at
\* once or later, by an acknowledgement to that socket, whatever the store
\* does with the save (it succeeds, it fails, or it gives no answer).
C27_EveryActionIsAcknowledged ==
  \A s \in {"s1", "s2"} :
    (last.op = "game-action" /\ last.sock = s) ~> AckSentTo(s)

\* C28: in every reachable state the seats of each room stand in the order
\* of strictly ascending playerIndex, in whatever order the seats were
\* taken, taken over, left or dropped.
C28_SeatsAscend ==
  \A c \in DOMAIN rooms :
    \A i \in 1..(Len(rooms[c].players) - 1) :
      rooms[c].players[i].playerIndex < rooms[c].players[i + 1].playerIndex

\* C28 witness: a join took index 0 in a room where the seat of index 1 was
\* held, and its seat, pushed last, stands first.
C28_Witness ==
  /\ Accepted("join-room")
  /\ last.out[1].body.playerIndex = 0
  /\ Len(rooms[last.code].players) = 2
  /\ rooms[last.code].players[1].id = last.sock
  /\ rooms[last.code].players[1].playerIndex = 0
  /\ rooms[last.code].players[2].playerIndex = 1

\* The card at the index of the player's hand may be played on the pile by
\* the rule of the game: higher on an ascending pile, lower on a descending
\* one, or the step back of exactly backtrackAmount.
Playable(g, playerIndex, cardIndex, pileType) ==
  /\ playerIndex = g.currentPlayer
  /\ pileType \in Piles
  /\ cardIndex \in 0..(Len(g.hands[playerIndex + 1]) - 1)
  /\ LET card == g.hands[playerIndex + 1][cardIndex + 1]
         top  == g[pileType]
     IN IF pileType \in {"ascending1", "ascending2"}
        THEN card > top \/ card = top - g.backtrackAmount
        ELSE card < top \/ card = top + g.backtrackAmount

C30_PlayCardMovesOneCard ==
  (returned # Null /\ returned.call = "playCard" /\ returned.result.success) =>
    LET g == returned.given
        n == returned.result.newGameState
        p == returned.playerIndex
    IN /\ n.hands[p + 1] = RemoveAt(g.hands[p + 1], returned.cardIndex + 1)
       /\ n[returned.pileType] = g.hands[p + 1][returned.cardIndex + 1]
       /\ n.cardsPlayedThisTurn = g.cardsPlayedThisTurn + 1
       /\ n.currentPlayer = g.currentPlayer
       /\ n.deck = g.deck
       /\ \A q \in Piles \ {returned.pileType} : n[q] = g[q]
       /\ \A i \in 1..Len(g.hands) : i # p + 1 => n.hands[i] = g.hands[i]
       /\ Len(n.hands) = Len(g.hands)

\* C30 witness: the second card of one turn was played, the required
\* MinCardsPerTurn being played already, and the turn is still the player's.
C30_Witness ==
  /\ returned # Null /\ returned.call = "playCard"
  /\ returned.result.success
  /\ returned.given.cardsPlayedThisTurn >= MinCardsPerTurn
  /\ game.cardsPlayedThisTurn = returned.given.cardsPlayedThisTurn + 1
  /\ game.currentPlayer = returned.playerIndex

\* C31: endTurn for a current player who holds cards fails exactly when
\* cardsPlayedThisTurn is below the number required, minCardsPerTurn while
\* the deck has cards and 1 when it has none; it then returns an error and
\* leaves the state as it was.  With an empty hand endTurn succeeds.
C31_EndTurnFailsExactlyBelowTheRequired ==
  (returned # Null /\ returned.call = "endTurn") =>
    LET g == returned.given
        required == IF Len(g.deck) = 0 THEN 1 ELSE g.minCardsPerTurn
    IN /\ Len(g.hands[g.currentPlayer + 1]) > 0 =>
            (~returned.result.success <=> g.cardsPlayedThisTurn < required)
       /\ Len(g.hands[g.currentPlayer + 1]) = 0 => returned.result.success
       /\ ~returned.result.success =>
            /\ DOMAIN returned.result = {"success", "error"}
            /\ returned.left = g
            /\ game = g

\* C31 witness: with no deck left, a player who holds cards and has played
\* one card where minCardsPerTurn is two has ended the turn.
C31_Witness ==
  /\ returned # Null /\ returned.call = "endTurn"
  /\ returned.result.success
  /\ returned.given.deck = << >>
  /\ returned.given.hands[returned.given.currentPlayer + 1] # << >>
  /\ returned.given.cardsPlayedThisTurn = 1
  /\ returned.given.minCardsPerTurn = 2

\* The smaller of two numbers.
Min(a, b) == IF a < b THEN a ELSE b

\* The player is the first after cur, in cyclic order, who holds cards.
FirstWithCardsAfter(hands, cur, player) ==
  \E d \in 1..Len(hands) :
    /\ player = (cur + d) % Len(hands)
    /\ hands[player + 1] # << >>
    /\ \A e \in 1..(d - 1) : hands[((cur + e) % Len(hands)) + 1] = << >>

\* C32: a successful endTurn moves min(cardsPlayedThisTurn, deck size) cards
\* from the top of the deck, in order, into the hand of the current player,
\* sets cardsPlayedThisTurn to 0 and makes the first player after the
\* current one who holds cards the current player (whoever, when no hand
\* holds a card).
C32_EndTurnDrawsAndPassesOn ==
  (returned # Null /\ returned.call = "endTurn" /\ returned.result.success) =>
    LET g   == returned.given
        n   == returned.result.newGameState
        cur == g.currentPlayer
        k   == Min(g.cardsPlayedThisTurn, Len(g.deck))
    IN /\ n.hands[cur + 1] = g.hands[cur + 1] \o SubSeq(g.deck, 1, k)
       /\ n.deck = SubSeq(g.deck, k + 1, Len(g.deck))
       /\ \A i \in 1..Len(g.hands) : i # cur + 1 => n.hands[i] = g.hands[i]
       /\ n.cardsPlayedThisTurn = 0
       /\ n.currentPlayer \in 0..(g.numPlayers - 1)
       /\ (\E i \in 1..Len(n.hands) : n.hands[i] # << >>) =>
            FirstWithCardsAfter(n.hands, cur, n.currentPlayer)

\* C33: a start-game request on a room that is started leaves the stored
\* gameState, its version included, and numPlayers as they were.
C33_StartedRoomIsNotRestarted ==
  [][( /\ last'.op = "start-game"
       /\ last'.code \in DOMAIN rooms
       /\ rooms[last'.code].started )
     => /\ rooms'[last'.code].gameState = rooms[last'.code].gameState
        /\ rooms'[last'.code].numPlayers = rooms[last'.code].numPlayers]_vars

\* C34: an accepted rejoin-room leaves every seat that is connected bound
\* to the socket it was bound to: only a seat with connected = false is
\* given to another socket.
C34_ConnectedSeatsAreNotTakenOver ==
  [][Accepted("rejoin-room")' =>
       LET before == rooms[last'.code].players
           after  == rooms'[last'.code].players
       IN \A i \in 1..Len(before) :
            before[i].connected =>
              \E j \in 1..Len(after) :
                /\ after[j].playerIndex = before[i].playerIndex
                /\ after[j].id = before[i].id]_vars

\* The client of s shows the lobby of the room of the code as its creator,
\* the room is not started and has a seat besides the creator's, and the
\* client has heard the latest 'room-update' of the room.
HostInFullLobby(s, code) ==
  /\ code \in DOMAIN rooms
  /\ ~rooms[code].started
  /\ Len(rooms[code].players) >= 2
  /\ rooms[code].players[1].id = s
  /\ client[s].screen = "lobby" /\ client[s].isHost
  /\ client[s].roomPlayers = rooms[code].players

\* C35: with the bundled client and server, the client of the creator of a
\* room shows the Start Game button in a lobby in which the creator and at
\* least one joined player are seated, and the client of a player who
\* joined never shows it.
C35_HostCanStartFromTheLobby ==
  \A s \in Sockets :
    /\ \A code \in Codes : HostInFullLobby(s, code) => StartEnabled(client[s])
    /\ (client[s].screen = "lobby" /\ ~client[s].isHost) => ~StartEnabled(client[s])

\* ------------------------------------------------------- retries of an action
\* The response a handler gave the socket s before it returned: the body of
\* its 'ack', Null when it gave none.
ResponseTo(s, out) ==
  LET acks == SelectSeq(out, LAMBDA e : e.ev = "ack" /\ s \in e.to)
  IN IF acks = << >> THEN Null ELSE acks[1].body

\* The callback of the k-th emission runs with the server's response: it
\* clears the timeout, and on an error it sets the timer of a retry while
\* retryCount < maxRetries.
Callback(c, k, response) ==
  [c EXCEPT !.attempts[k] =
     [@ EXCEPT !.timeout = FALSE, !.called = TRUE,
               !.again = /\ "error" \in DOMAIN response
                         /\ c.attempts[k].retryCount < maxRetries]]

\* The client of s, left as c by a call of sendGameAction that emitted, and
\* the server's handler of the emission up to its first await; a response
\* the handler gives before it returns runs the callback.
Emits(s, code, c) ==
  LET k == Len(c.attempts) IN
  /\ GameAction(s, code, c.attempts[k].gameState)
  /\ client' = [client EXCEPT ![s] =
                  IF ResponseTo(s, last'.out) = Null THEN c
                  ELSE Callback(c, k, ResponseTo(s, last'.out))]

\* The user acts once: a handler of the latest render calls
\* sendGameAction(gameState).
UserAction(s, code, gameState) ==
  /\ client[s].attempts = << >>
  /\ Emits(s, code, SendGameAction(client[s], gameState))

\* The 5-second timeout of the k-th emission fires before its callback has
\* run: sendGameAction(gameState, retryCount + 1) while
\* retryCount < maxRetries.
Timeout(s, code, k) ==
  LET c == [client[s] EXCEPT !.attempts[k].timeout = FALSE]
      a == client[s].attempts[k]
  IN /\ a.timeout
     /\ IF a.retryCount < maxRetries
        THEN Emits(s, code, sendGameAction(c, c.seen, a.gameState, a.retryCount + 1))
        ELSE /\ client' = [client EXCEPT ![s] = c]
             /\ ServerIdle

\* The 1-second timer set by the callback of the k-th emission fires:
\* sendGameAction(gameState, retryCount + 1).
Again(s, code, k) ==
  LET c == [client[s] EXCEPT !.attempts[k].again = FALSE]
      a == client[s].attempts[k]
  IN /\ a.again
     /\ Emits(s, code, sendGameAction(c, c.seen, a.gameState, a.retryCount + 1))

\* The store answers the save a game-action handler of s awaits, the
\* handler acknowledges, and the callback of the k-th emission, one that
\* has not been answered, runs with {success: true}.
AckArrives(s, k, op, ok) ==
  /\ op.then = [ack |-> s]
  /\ ~client[s].attempts[k].called
  /\ StoreAnswers(op, ok)
  /\ client' = [client EXCEPT ![s] = Callback(client[s], k, [success |-> TRUE])]

\* One client, its room and the store: the client submits one action, to
\* the room or before the room is there, and the timers of sendGameAction
\* and the answers of the store come in any order.
NextRetry ==
  \/ /\ "R1" \notin DOMAIN rooms
     /\ CreateRoom("s1", "ann", "R1") /\ Count(FALSE) /\ Offstage
  \/ \E gameState \in Payloads :
       /\ UserAction("s1", "R1", gameState)
       /\ Count(FALSE) /\ UNCHANGED << wire, game, returned >>
  \/ \E k \in 1..Len(client["s1"].attempts) :
       /\ Timeout("s1", "R1", k)
       /\ UNCHANGED << events, wire, game, returned >>
  \/ \E k \in 1..Len(client["s1"].attempts) :
       /\ Again("s1", "R1", k)
       /\ Count(FALSE) /\ UNCHANGED << wire, game, returned >>
  \/ \E k \in 1..Len(client["s1"].attempts), op \in BagToSet(db.pending),
        ok \in BOOLEAN :
       /\ AckArrives("s1", k, op, ok)
       /\ Count(FALSE) /\ UNCHANGED << wire, game, returned >>
  \/ \E op \in BagToSet(db.pending), ok \in BOOLEAN :
       /\ op.then = Null
       /\ StoreAnswers(op, ok) /\ Count(FALSE) /\ Offstage

SpecRetry == InitStore /\ [][NextRetry]_vars

\* C36: one user action submitted once through sendGameAction and accepted
\* by the server raises the version of its room by exactly 1, from 0 to 1
\* in a new room, and is emitted at most 1 + maxRetries times, whenever the
\* acknowledgements arrive.
C36_OneActionRaisesTheVersionOnce ==
  /\ Len(client["s1"].sent) <= 1 + maxRetries
  /\ "R1" \in DOMAIN rooms => VersionOr0(rooms["R1"].gameState) <= 1

\* ------------------------------------------------------- one client's turn
\* One client, the creator of its room and first to play, on the games of
\* StartedGames: it plays and ends its turn, and the server's broadcast of
\* its latest action reaches it at some time or not yet.
NextTurn ==
  \/ /\ client["s1"].myPlayerIndex = Null
     /\ Deliver("s1", "room-created", [roomCode |-> "R1", playerIndex |-> 0])
     /\ ServerIdle /\ UNCHANGED << wire, game, returned >>
  \/ \E g \in StartedGames :
       /\ client["s1"].gameState = Null
       /\ Deliver("s1", "game-started", [gameState |-> g])
       /\ ServerIdle /\ UNCHANGED << wire, game, returned >>
  \/ /\ client["s1"].sent # << >>
     /\ LET n == Len(client["s1"].sent)
        IN Deliver("s1", "game-update",
                   [gameState |-> [client["s1"].sent[n] EXCEPT !.version = n]])
     /\ ServerIdle /\ UNCHANGED << wire, game, returned >>
  \/ Render("s1") /\ ServerIdle /\ UNCHANGED << wire, game, returned >>
  \/ \E selectedCard \in 0..HandSize, pileType \in Piles :
       /\ Len(client["s1"].sent) < MaxTurnSent
       /\ HandlePlayCard("s1", selectedCard, pileType)
       /\ ServerIdle /\ UNCHANGED << wire, game, returned >>
  \/ /\ Len(client["s1"].sent) < MaxTurnSent
     /\ HandleEndTurn("s1") /\ ServerIdle /\ UNCHANGED << wire, game, returned >>

SpecTurn == Init /\ [][NextTurn]_vars

\* The cards a state holds in its deck and its hands, in a row.
RECURSIVE InHands(_, _)
InHands(hands, n) ==
  IF n = 0 THEN << >> ELSE InHands(hands, n - 1) \o hands[n]

HeldCards(gameState) ==
  gameState.deck \o InHands(gameState.hands, Len(gameState.hands))

\* No card twice in the deck and the hands, and none of the played cards
\* in them.
CardsOnce(gameState) ==
  LET held == HeldCards(gameState) IN
  /\ \A i, j \in 1..Len(held) : held[i] = held[j] => i = j
  /\ \A i \in 1..Len(gameState.playLog), j \in 1..Len(held) :
       gameState.playLog[i].card # held[j]

\* C37: in every state that a successful playCard or endTurn of the client
\* returned, starting from initializeGame, no card is twice in the deck and
\* the hands and no played card is in them, also when endTurn is called
\* twice on the state the client holds.
C37_NoCardTwice ==
  \A i \in 1..Len(client["s1"].sent) : CardsOnce(client["s1"].sent[i])

\* C38: once the disconnect of a socket has been handled, no room of the
\* registry holds a seat bound to that socket with connected = true,
\* whatever the socket created, joined and rejoined before.
C38_NoConnectedSeatAfterDisconnect ==
  \A s \in Sockets : \A code \in DOMAIN rooms :
    conn[s] = "closed" =>
      \A i \in 1..Len(rooms[code].players) :
        ~(rooms[code].players[i].id = s /\ rooms[code].players[i].connected)

\* ------------------------------------------------------ the offline queue
\* A client is explored up to this many queued actions.
MaxQueued == 2

\* pendingActions.forEach(action => sendGameAction(action.gameState)) for
\* the first n actions, with the array and the sendGameAction of the render
\* whose closure the listener holds.
RECURSIVE Replayed(_, _, _)
Replayed(c, closure, n) ==
  IF n = 0 THEN c
  ELSE sendGameAction(Replayed(c, closure, n - 1), closure,
                      closure.pendingActions[n], 0)

\* socket.on('connect'), the listener registered by the effect that last
\* ran: setIsConnected(true), the pending actions it closed over are
\* sent again and setPendingActions([]).
OnConnect(c) ==
  LET heldBy == c.listening
      online == [c EXCEPT !.isConnected = TRUE]
  IN IF heldBy.pendingActions = << >> THEN online
     ELSE [Replayed(online, heldBy, Len(heldBy.pendingActions))
             EXCEPT !.pendingActions = << >>]

\* socket.on('disconnect'): setIsConnected(false).
OnDisconnect(c) == [c EXCEPT !.isConnected = FALSE]

\* The socket of the client of s loses its connection, and gets it again.
ClientDisconnect(s) ==
  /\ client[s].isConnected
  /\ client' = [client EXCEPT ![s] = OnDisconnect(client[s])]

ClientConnect(s) ==
  /\ ~client[s].isConnected
  /\ client' = [client EXCEPT ![s] = OnConnect(client[s])]

\* A handler of the latest render calls sendGameAction(gameState).
Acts(s, gameState) ==
  /\ Len(client[s].sent) < MaxSent
  /\ Len(client[s].pendingActions) < MaxQueued
  /\ client' = [client EXCEPT ![s] = SendGameAction(client[s], gameState)]

\* One client whose connection comes and goes while it acts; 'connect' is
\* explored up to MaxSent emissions made.
NextOffline ==
  \/ ClientDisconnect("s1") /\ ServerIdle /\ UNCHANGED << wire, game, returned >>
  \/ /\ Len(client["s1"].sent) <= MaxSent
     /\ ClientConnect("s1") /\ ServerIdle /\ UNCHANGED << wire, game, returned >>
  \/ Render("s1") /\ ServerIdle /\ UNCHANGED << wire, game, returned >>
  \/ \E gameState \in Payloads :
       Acts("s1", gameState) /\ ServerIdle /\ UNCHANGED << wire, game, returned >>

SpecOffline == Init /\ [][NextOffline]_vars

\* C39: when 'connect' reaches a client that React has rendered with its
\* latest state, every action in its queue is emitted as a 'game-action'
\* in that step; none is dropped with the clearing of the queue.
C39_QueuedActionsAreEmittedOnConnect ==
  [][ \A s \in Sockets :
        ( /\ ~client[s].isConnected /\ client'[s].isConnected
          /\ client[s].seen = Closure(client[s]) )
        => \A i \in 1..Len(client[s].pendingActions) :
             \E j \in (Len(client[s].sent) + 1)..Len(client'[s].sent) :
               client'[s].sent[j] = client[s].pendingActions[i] ]_vars

\* ------------------------------------------------- a store that never fails
\* One room, created, played on and swept when it has expired, with a store
\* that carries out every operation it is asked for, in any order.
NextStore ==
  \/ CreateRoom("s1", "ann", "R1") /\ Count(TRUE) /\ Offstage
  \/ \E g \in OnePayload :
       MayUpdate("R1") /\ GameAction("s1", "R1", g) /\ Count(TRUE) /\ Offstage
  \/ Advance /\ Count(FALSE) /\ Offstage
  \/ Cleanup /\ Count(FALSE) /\ Offstage
  \/ CleanupAnswered(TRUE) /\ Count(FALSE) /\ Offstage
  \/ \E op \in BagToSet(db.pending) :
       StoreAnswers(op, TRUE) /\ Count(FALSE) /\ Offstage

SpecStore == InitStore /\ [][NextStore]_vars

\* C40: when the cleanup has deleted a room from the registry and the store
\* has carried out every operation it was asked for, the save of each
\* earlier handler and the delete of the cleanup, in whatever order, the
\* store holds no record under the code of the room.
C40_NoRecordOfASweptRoom ==
  \A code \in Codes :
    (code \notin DOMAIN rooms /\ db.pending = EmptyBag) => code \notin db.records

====
